---- MODULE Spec2Model ----
(***************************************************************************)
(* A model of the PBIR parsers of pbirdoc:                                 *)
(*   - EnhancedPBIRParser (src/cli-parser.js), the CLI parser with schema  *)
(*     validation, parse errors and parse warnings;                        *)
(*   - PBIRParser (src/unnamed/part_001), the parser of the web app;       *)
(*   - PBIRReportGenerator.parsePages (src/styles.css), the page display   *)
(*     name of the CLI report.                                             *)
(*                                                                         *)
(* Strings are sequences of tokens: "/" is the path separator, every other *)
(* token stands for a run of characters without "/".  A path is the token  *)
(* sequence of its text, so String.includes, endsWith, replace and the     *)
(* regular expressions of the extract*Name methods are computed on it.     *)
(***************************************************************************)
EXTENDS Integers, Sequences, FiniteSets, TLC

(***************************************************************************)
(* Bounds of the model.                                                    *)
(***************************************************************************)
\* the largest number of documents in a document set
MaxDocs == 3
\* the largest number of segments of a path given to the extract*Name methods
MaxSegments == 5
\* the largest number of entries of the pages array of pages.json
MaxEntries == 2
\* the largest number of tokens of a raw visual type
MaxTypeTokens == 4
\* the largest aggregation function code
MaxCode == 99
\* the largest nesting depth of a filter condition
MaxDepth == 1
\* the largest number of filters of a filterConfig.filters list
MaxFilters == 3
\* the largest number of entries of a prototypeQuery.Select list
MaxSelect == 2

(***************************************************************************)
(* Strings.                                                                *)
(***************************************************************************)
Slash == "/"

\* the value of a key that an object does not have
UNDEF == <<"#undefined">>

\* the text of a one-token string
Str(t) == <<t>>

RECURSIVE Join(_)
\* the path whose segments are segs: segs[1]/segs[2]/...
Join(segs) ==
    IF Len(segs) = 0 THEN <<>>
    ELSE IF Len(segs) = 1 THEN <<segs[1]>>
    ELSE <<segs[1], Slash>> \o Join(Tail(segs))

\* pat occurs in s at position i
OccursAt(s, pat, i) ==
    /\ i >= 1
    /\ i + Len(pat) - 1 <= Len(s)
    /\ \A k \in 1..Len(pat) : s[i + k - 1] = pat[k]

\* the first position at which pat occurs in s, 0 when there is none
IndexOf(s, pat) ==
    LET hits == {i \in 1..(Len(s) + 1) : OccursAt(s, pat, i)}
    IN  IF hits = {} THEN 0 ELSE CHOOSE i \in hits : \A j \in hits : i <= j

\* String.prototype.includes
Includes(s, pat) == IndexOf(s, pat) # 0

\* String.prototype.endsWith
EndsWith(s, pat) == OccursAt(s, pat, Len(s) - Len(pat) + 1)

\* String.prototype.replace with a string pattern: the first occurrence only
ReplaceFirst(s, pat, by) ==
    LET i == IndexOf(s, pat)
    IN  IF i = 0 THEN s
        ELSE SubSeq(s, 1, i - 1) \o by \o SubSeq(s, i + Len(pat), Len(s))

\* the longest run of tokens other than "/" that starts at position i: [^\/]*
RunEnd(s, i) ==
    LET stops == {j \in i..Len(s) : s[j] = Slash}
    IN  IF stops = {} THEN Len(s)
        ELSE (CHOOSE j \in stops : \A k \in stops : j <= k) - 1

(***************************************************************************)
(* The identifier patterns.  Each is  pre ([^\/]+) post $ : the match      *)
(* starts at the leftmost occurrence of pre from which the rest matches,   *)
(* the group takes the longest run without "/" that post and the end of    *)
(* the string can follow.                                                  *)
(***************************************************************************)
\* the ends of a group, should the pattern lack its $
GroupEnds_Unanchored(s, a, post) ==
    {e \in a..RunEnd(s, a) : OccursAt(s, post, e + 1)}

\* the ends e of a group that starts at a, for a match of post then $
GroupEnds(s, a, post) ==
    {e \in a..RunEnd(s, a) :
        /\ OccursAt(s, post, e + 1)
        /\ e + Len(post) = Len(s)}

\* the starts of a match of the whole pattern
MatchStarts(s, pre, post) ==
    {i \in 1..Len(s) :
        /\ OccursAt(s, pre, i)
        /\ GroupEnds(s, i + Len(pre), post) # {}}

\* path.match(/pre([^\/]+)post$/): the group of the match, or 'unknown'
MatchOrUnknown(s, pre, post) ==
    LET starts == MatchStarts(s, pre, post)
    IN  IF starts = {} THEN Str("unknown")
        ELSE LET i == CHOOSE x \in starts : \A y \in starts : x <= y
                 a == i + Len(pre)
                 ends == GroupEnds(s, a, post)
                 e == CHOOSE x \in ends : \A y \in ends : y <= x
             IN  SubSeq(s, a, e)

\* /\/pages\/([^\/]+)\/page\.json$/
extractPageName(path) ==
    MatchOrUnknown(path, <<Slash, "pages", Slash>>, <<Slash, "page.json">>)

\* /\/visuals\/([^\/]+)\/visual\.json$/
extractVisualName(path) ==
    MatchOrUnknown(path, <<Slash, "visuals", Slash>>, <<Slash, "visual.json">>)

\* /\/([^\/]+)\.bookmark\.json$/
extractBookmarkName(path) ==
    MatchOrUnknown(path, <<Slash>>, <<".bookmark.json">>)

\* the filter of the page files
IsPageFile(path) ==
    Includes(path, <<Slash, "pages", Slash>>) /\ EndsWith(path, <<Slash, "page.json">>)

\* the filter of the visual files of page pageName
IsVisualFileOf(path, pageName) ==
    /\ Includes(path, <<Slash, "pages", Slash>> \o pageName \o <<Slash, "visuals", Slash>>)
    /\ EndsWith(path, <<Slash, "visual.json">>)

\* the filter of the bookmark files
IsBookmarkFile(path) ==
    Includes(path, <<Slash, "bookmarks", Slash>>) /\ EndsWith(path, <<".bookmark.json">>)

\* the path of the mobile layout beside a visual.json
MobilePath(path) ==
    ReplaceFirst(path, <<Slash, "visual.json">>, <<Slash, "mobile.json">>)

(***************************************************************************)
(* Documents.  A document either fails to deserialize ("bad"), or          *)
(* deserializes to null ("null"), or to an object ("obj") with the         *)
(* top-level keys f; f[k] = UNDEF when the object has no key k.  Select    *)
(* stands for visual.singleVisual.prototypeQuery.Select and filters for    *)
(* filterConfig.filters; their values are "#list" or "#object"; schema     *)
(* stands for the key $schema.                                             *)
(***************************************************************************)
Keys == {"schema", "position", "name", "version", "extensions", "Select", "filters"}

NoKeys == [k \in Keys |-> UNDEF]

Obj(f) == [kind |-> "obj", f |-> [k \in Keys |-> IF k \in DOMAIN f THEN f[k] ELSE UNDEF]]
Bad == [kind |-> "bad", f |-> NoKeys]
NullDoc == [kind |-> "null", f |-> NoKeys]

\* the value null
Null == [kind |-> "null", f |-> NoKeys]

Truthy(data) == data.kind = "obj"

LIST == Str("#list")
OBJECT == Str("#object")

\* the value that stands for the parsed document at path, as a field value
DataRef(path, data) == IF Truthy(data) THEN <<"#doc">> \o path ELSE Str("#null")

(***************************************************************************)
(* The candidate documents of a report directory, in the order of the      *)
(* directory walk, each with the contents it may have.                     *)
(***************************************************************************)
Def(segs) == Join(<<"definition">> \o segs)

\* definition/bookmarks/<name>.bookmark.json
BookmarkPath(name) == Def(<<"bookmarks", name>>) \o <<".bookmark.json">>

Universe == <<
    [path |-> BookmarkPath("b1"),
     docs |-> {Obj([name |-> Str("Bookmark 1")]), Bad, NullDoc}],
    [path |-> Def(<<"bookmarks", "bookmarks.json">>),
     docs |-> {Obj([name |-> UNDEF]), Bad}],
    [path |-> Def(<<"pages", "grp", "p3", "page.json">>),
     docs |-> {Obj([name |-> Str("p3")])}],
    [path |-> Def(<<"pages", "p1", "page.json">>),
     docs |-> {Obj([name |-> Str("Other")]), Bad, NullDoc}],
    [path |-> Def(<<"pages", "p1", "visuals", "v1", "mobile.json">>),
     docs |-> {Obj([schema |-> Str("mobile/1.0"), position |-> OBJECT]),
               Obj([schema |-> Str("mobile/1.0")]), Bad, NullDoc}],
    [path |-> Def(<<"pages", "p1", "visuals", "v1", "visual.json">>),
     docs |-> {Obj([name |-> Str("v1"), Select |-> LIST, filters |-> LIST]),
               Obj([name |-> Str("v1"), Select |-> OBJECT]),
               Obj([name |-> Str("v1"), filters |-> OBJECT]), Bad}],
    [path |-> Def(<<"pages", "p1", "visuals", "v2", "visual.json">>),
     docs |-> {Obj([name |-> Str("v2")]), Bad}],
    [path |-> Def(<<"pages", "p2", "page.json">>),
     docs |-> {Obj([name |-> Str("p2")])}],
    [path |-> Def(<<"pages", "p2", "visuals", "v1", "visual.json">>),
     docs |-> {Obj([name |-> Str("v1")])}],
    [path |-> Def(<<"pages", "pages.json">>),
     docs |-> {Obj([name |-> UNDEF]), Bad}],
    [path |-> Def(<<"report.json">>),
     docs |-> {Obj([schema |-> Str("report/1.0")]),
               Obj([schema |-> Str("report/1.0"), version |-> Str("5.0"),
                    extensions |-> Str("none")]), Bad}],
    [path |-> Def(<<"reportExtensions.json">>),
     docs |-> {Obj([name |-> Str("extension")])}],
    [path |-> Def(<<"version.json">>),
     docs |-> {Obj([version |-> Str("2.0")]), Bad}],
    [path |-> Join(<<"old", "pages", "p1", "page.json">>),
     docs |-> {Obj([name |-> Str("p1"), schema |-> Str("page/old")])}]
>>

RECURSIVE FileLists(_, _)
\* the document sets of at most n documents among Universe[i..], as file lists
FileLists(i, n) ==
    IF i > Len(Universe) \/ n = 0 THEN {<<>>}
    ELSE FileLists(i + 1, n)
         \cup {<<[path |-> Universe[i].path, doc |-> d]>> \o rest :
                 d \in Universe[i].docs, rest \in FileLists(i + 1, n - 1)}

DocumentSets == FileLists(1, MaxDocs)

(***************************************************************************)
(* The state of one parser and of its run of parseDirectory / parseFiles.  *)
(***************************************************************************)
VARIABLES
    impl,           \* "cli": EnhancedPBIRParser, "web": PBIRParser
    schemas,        \* the names of the schemas the SchemaValidator loaded
    files,          \* the document set: a list of [path, doc]
    pc,             \* the position of the run
    reportData,     \* this.reportData
    pages,          \* this.pages: page name -> page
    visuals,        \* this.visuals: "pageName:visualName" -> visual
    bookmarks,      \* this.bookmarks: bookmark name -> data
    parseErrors,    \* this.parseErrors
    parseWarnings,  \* this.parseWarnings
    readLog,        \* the reads so far, in order: [path, schema]
    normalized,     \* a visual was processed or a page assembled
    fileIdx,        \* parsePages: the index of the page file of the iteration
    pageName,       \* parsePages: pageName
    pageData,       \* parsePages: pageData
    visIdx,         \* parsePageVisuals: the index of the visual file of the iteration
    visualName,     \* parsePageVisuals: visualName
    visualData,     \* parsePageVisuals: visualData
    mobileData,     \* parsePageVisuals: mobileData
    pageVisuals,    \* parsePageVisuals: the Map visuals
    bmIdx,          \* parseBookmarks: the index of the bookmark file of the iteration
    segments,       \* extract*Name: the segments of the path given
    givenPath,      \* extract*Name: the path given
    match,          \* extract*Name: the value returned
    pagesData,      \* PBIRReportGenerator.parsePages: pagesData of pages.json
    pagesMetadata,  \* PBIRReportGenerator.parsePages: pagesMetadata
    entryIdx,       \* PBIRReportGenerator.parsePages: the entry of the forEach
    displayName,    \* PBIRReportGenerator.parsePages: pageData.displayName
    pageInfo,       \* PBIRReportGenerator.parsePages: pageInfo.name
    arg,            \* a call of an extractor: its argument
    result,         \* a call of an extractor: the value returned, or the throw
    uploaded,       \* PowerBIApp: the document set of the upload before this one
    currentPage,    \* PowerBIApp: this.currentPage
    rendered,       \* LayoutRenderer: this.pageData, the name of the page
    selectedVisual, \* LayoutRenderer: this.selectedVisual
    visualElements, \* LayoutRenderer: this.visualElements
    canvas,         \* LayoutRenderer: what was drawn since clearCanvas
    visualInfo,     \* the content of the element visual-info
    handled         \* the last DOM event and what its handler did, in order

vars == <<impl, schemas, files, pc, reportData, pages, visuals, bookmarks,
          parseErrors, parseWarnings, readLog, normalized, fileIdx, pageName,
          pageData, visIdx, visualName, visualData, mobileData, pageVisuals, bmIdx,
          segments, givenPath, match, pagesData, pagesMetadata, entryIdx,
          displayName, pageInfo, arg, result, uploaded, currentPage, rendered,
          selectedVisual, visualElements, canvas, visualInfo, handled>>

maps == <<reportData, pages, visuals, bookmarks>>
logs == <<parseErrors, parseWarnings, readLog>>
pageLocals == <<fileIdx, pageName, pageData>>
visualLocals == <<visIdx, visualName, visualData, mobileData, pageVisuals>>
input == <<impl, schemas, files>>
pathVars == <<segments, givenPath, match>>
infoVars == <<pagesData, pagesMetadata, entryIdx, displayName, pageInfo>>
callVars == <<arg, result>>
rendererVars == <<rendered, selectedVisual, visualElements, canvas>>
appVars == <<uploaded, currentPage, rendererVars, visualInfo, handled>>
aux == <<pathVars, infoVars, callVars, appVars>>

\* new Map()
EmptyMap == [k \in {} |-> Null]

\* Map.prototype.set
MapSet(m, k, v) == [x \in (DOMAIN m) \cup {k} |-> IF x = k THEN v ELSE m[x]]

(***************************************************************************)
(* The schema validator.                                                   *)
(***************************************************************************)
SchemaNames == {"report", "versionMetadata", "reportExtension", "pagesMetadata",
                "page", "visualContainer", "visualContainerMobileState",
                "bookmarksMetadata", "bookmark"}

\* the "required" list of a schema of json-schemas/
RequiredKeys(schemaName) ==
    IF schemaName = "visualContainerMobileState" THEN {"schema", "position"} ELSE {}

\* SchemaValidator.basicValidate: "throws" when `in` is applied to a non-object
basicValidate(data, schemaName) ==
    IF RequiredKeys(schemaName) = {} THEN "valid"
    ELSE IF data.kind # "obj" THEN "throws"
    ELSE IF \E k \in RequiredKeys(schemaName) : data.f[k] = UNDEF THEN "invalid"
    ELSE "valid"

validate_NotFoundIsValid(data, schemaName) ==
    IF schemaName \notin schemas THEN "valid" ELSE basicValidate(data, schemaName)

\* SchemaValidator.validate
validate(data, schemaName) ==
    IF schemaName \notin schemas THEN "invalid" ELSE basicValidate(data, schemaName)

(***************************************************************************)
(* Reading one document.  The result is the data returned and the entries  *)
(* added to parseErrors and parseWarnings.                                 *)
(***************************************************************************)
Parsed(doc) == [kind |-> doc.kind, f |-> doc.f]

\* EnhancedPBIRParser.parseJsonFileWithValidation
parseJsonFileWithValidation(file, schemaName) ==
    IF file.doc.kind = "bad"
    THEN [data |-> Null, warnings |-> <<>>,
          errors |-> <<[path |-> file.path, what |-> "SyntaxError"]>>]
    ELSE LET v == validate(Parsed(file.doc), schemaName)
         IN  IF v = "throws"
             THEN [data |-> Null, warnings |-> <<>>,
                   errors |-> <<[path |-> file.path, what |-> "TypeError"]>>]
             ELSE [data |-> Parsed(file.doc), errors |-> <<>>,
                   warnings |-> IF v = "invalid"
                                THEN <<[path |-> file.path, what |-> schemaName]>>
                                ELSE <<>>]

\* PBIRParser.parseJsonFile
parseJsonFile(file) ==
    [data |-> IF file.doc.kind = "bad" THEN Null ELSE Parsed(file.doc),
     errors |-> <<>>, warnings |-> <<>>]

ReadJson(file, schemaName) ==
    IF impl = "cli" THEN parseJsonFileWithValidation(file, schemaName)
    ELSE parseJsonFile(file)

\* the effect of a read on the lists of the parser
Logged(r, file, schemaName) ==
    /\ parseErrors' = parseErrors \o r.errors
    /\ parseWarnings' = parseWarnings \o r.warnings
    /\ readLog' = Append(readLog, [path |-> file.path, schema |-> schemaName])

(***************************************************************************)
(* Finding documents.                                                      *)
(***************************************************************************)
\* findFile: the index of the first file whose path ends with relativePath, or 0
findFile(relativePath) ==
    LET c == {i \in 1..Len(files) : EndsWith(files[i].path, relativePath)}
    IN  IF c = {} THEN 0 ELSE CHOOSE i \in c : \A j \in c : i <= j

\* the index of the file at path, or 0
FileAt(path) ==
    LET c == {i \in 1..Len(files) : files[i].path = path}
    IN  IF c = {} THEN 0 ELSE CHOOSE i \in c : \A j \in c : i <= j

\* the index of the first file after index `after` that the filter accepts, or 0
NextIndex(after, Accepts(_)) ==
    LET c == {i \in (after + 1)..Len(files) : Accepts(files[i].path)}
    IN  IF c = {} THEN 0 ELSE CHOOSE i \in c : \A j \in c : i <= j

NoRootWarning == [path |-> <<>>, what |-> "No main report.json found"]

WarnMissingRoot_Silent(warnings) == warnings

\* the missing root is recorded (by EnhancedPBIRParser only)
WarnMissingRoot(warnings) ==
    IF impl = "cli" THEN Append(warnings, NoRootWarning) ELSE warnings

(***************************************************************************)
(* Building the records.                                                   *)
(***************************************************************************)
\* { ...reportData, [key]: value }
Merge(data, key, value) == [kind |-> "obj", f |-> [data.f EXCEPT ![key] = value]]

PageRecord_DocNameWins(data, name, vis) ==
    [f |-> [data.f EXCEPT !["name"] = IF data.f["name"] = UNDEF THEN name ELSE @],
     visuals |-> vis]

\* { ...pageData, name: pageName, visuals: pageVisuals }
PageRecord(data, name, vis) ==
    [f |-> [data.f EXCEPT !["name"] = name], visuals |-> vis]

\* processVisualData throws a TypeError
ProcessThrows(data) ==
    IF impl = "cli"
    THEN data.f["Select"] = OBJECT \/ data.f["filters"] = OBJECT
    ELSE ~Truthy(data) \/ data.f["Select"] = OBJECT

\* processVisualData
processVisualData(data, mobile) == [f |-> data.f, mobile |-> mobile]

GlobalVisual_Swapped(v, pName, vName) ==
    [f |-> v.f, mobile |-> v.mobile, pageName |-> vName, visualName |-> pName]

\* { ...processedVisual, pageName, visualName }
GlobalVisual(v, pName, vName) ==
    [f |-> v.f, mobile |-> v.mobile, pageName |-> pName, visualName |-> vName]

\* `${pageName}:${visualName}`
VisualKey(pName, vName) == pName \o <<":">> \o vName

(***************************************************************************)
(* The run.                                                                *)
(***************************************************************************)
\* no run of the parser has started
ParserIdle ==
    /\ reportData = Null
    /\ pages = EmptyMap
    /\ visuals = EmptyMap
    /\ bookmarks = EmptyMap
    /\ parseErrors = <<>>
    /\ parseWarnings = <<>>
    /\ readLog = <<>>
    /\ normalized = FALSE
    /\ fileIdx = 0
    /\ pageData = Null
    /\ visIdx = 0
    /\ visualName = <<>>
    /\ visualData = Null
    /\ mobileData = Null
    /\ pageVisuals = EmptyMap
    /\ bmIdx = 0

\* no path was given to an extract*Name method
PathIdle ==
    /\ segments = <<>>
    /\ givenPath = <<>>
    /\ match = <<>>

\* no page of the CLI report is being named
InfoIdle ==
    /\ pagesData = Null
    /\ pagesMetadata = EmptyMap
    /\ entryIdx = 0
    /\ displayName = UNDEF
    /\ pageInfo = <<>>

\* no visual: the null of selectedVisual and of the detail of visualSelected
NoVisual == [page |-> "", name |-> ""]

\* the element visual-info as index.html has it
NoInfo == [kind |-> "initial", page |-> "", name |-> ""]

\* LayoutRenderer as constructed
RendererIdle ==
    /\ rendered = ""
    /\ selectedVisual = NoVisual
    /\ visualElements = <<>>
    /\ canvas = <<>>

\* PowerBIApp as constructed: no upload was handled before, no page chosen
AppIdle ==
    /\ uploaded = <<>>
    /\ currentPage = ""
    /\ RendererIdle
    /\ visualInfo = NoInfo
    /\ handled = <<>>

\* no extractor was called
CallIdle ==
    /\ arg = <<>>
    /\ result = <<>>

Init ==
    /\ impl \in {"cli", "web"}
    /\ schemas \in IF impl = "cli" THEN {{}, {"visualContainerMobileState"}} ELSE {{}}
    /\ files \in DocumentSets
    /\ pc = "report"
    /\ pageName = <<>>
    /\ ParserIdle
    /\ PathIdle
    /\ InfoIdle
    /\ AppIdle
    /\ CallIdle

\* parseReportStructure: report.json
ParseReport ==
    /\ pc = "report"
    /\ LET i == findFile(Join(<<"definition", "report.json">>))
       IN  IF i # 0
           THEN LET r == ReadJson(files[i], "report")
                IN  /\ reportData' = r.data
                    /\ Logged(r, files[i], "report")
           ELSE /\ parseWarnings' = WarnMissingRoot(parseWarnings)
                /\ UNCHANGED <<reportData, parseErrors, readLog>>
    /\ pc' = "version"
    /\ UNCHANGED <<aux, input, pages, visuals, bookmarks, normalized, pageLocals,
                   visualLocals, bmIdx>>

\* parseReportStructure: an optional document merged under key
ParseOptional(at, relativePath, schemaName, key, next) ==
    /\ pc = at
    /\ LET i == findFile(relativePath)
       IN  IF i # 0
           THEN LET r == ReadJson(files[i], schemaName)
                    merges == \/ impl = "web"
                              \/ Truthy(reportData) /\ Truthy(r.data)
                IN  /\ Logged(r, files[i], schemaName)
                    /\ reportData' =
                         IF merges
                         THEN Merge(reportData, key, DataRef(files[i].path, r.data))
                         ELSE reportData
           ELSE UNCHANGED <<reportData, logs>>
    /\ pc' = next
    /\ UNCHANGED <<aux, input, normalized, pages, visuals, bookmarks, pageLocals, visualLocals, bmIdx>>

ParseVersion ==
    ParseOptional("version", Join(<<"definition", "version.json">>),
                  "versionMetadata", "version", "extensions")

ParseExtensions ==
    ParseOptional("extensions", Join(<<"definition", "reportExtensions.json">>),
                  "reportExtension", "extensions", "pagesList")

\* parsePages: pages.json
ParsePagesList ==
    /\ pc = "pagesList"
    /\ LET i == findFile(Join(<<"definition", "pages", "pages.json">>))
       IN  IF i # 0
           THEN LET r == ReadJson(files[i], "pagesMetadata")
                IN  /\ Logged(r, files[i], "pagesMetadata")
                    /\ pc' = IF impl = "web" /\ ~Truthy(r.data)
                             THEN "aborted" ELSE "pages"
           ELSE /\ pc' = "pages"
                /\ UNCHANGED logs
    /\ UNCHANGED <<aux, input, maps, normalized, pageLocals, visualLocals, bmIdx>>

\* parsePages: the next page file is read
NextPage ==
    /\ pc = "pages"
    /\ LET j == NextIndex(fileIdx, IsPageFile)
       IN  IF j # 0
           THEN LET r == ReadJson(files[j], "page")
                IN  /\ Logged(r, files[j], "page")
                    /\ pageName' = extractPageName(files[j].path)
                    /\ pageData' = r.data
                    /\ fileIdx' = j
                    /\ pc' = "gotPage"
           ELSE /\ pc' = "bookmarks"
                /\ UNCHANGED <<logs, pageLocals>>
    /\ UNCHANGED <<aux, input, maps, normalized, visualLocals, bmIdx>>

\* parsePages: the page was read; parsePageVisuals is called for it
AfterPage ==
    /\ pc = "gotPage"
    /\ IF impl = "cli" /\ ~Truthy(pageData)
       THEN /\ pc' = "pages"
            /\ pageName' = <<>>
            /\ pageData' = Null
            /\ UNCHANGED fileIdx
       ELSE /\ pc' = "visuals"
            /\ UNCHANGED pageLocals
    /\ UNCHANGED <<aux, input, maps, logs, normalized, visualLocals, bmIdx>>

\* parsePageVisuals: the next visual file of the page is read
NextVisual ==
    /\ pc = "visuals"
    /\ LET Accepts(path) == IsVisualFileOf(path, pageName)
           j == NextIndex(visIdx, Accepts)
       IN  IF j # 0
           THEN LET r == ReadJson(files[j], "visualContainer")
                IN  /\ Logged(r, files[j], "visualContainer")
                    /\ visualName' = extractVisualName(files[j].path)
                    /\ visualData' = r.data
                    /\ visIdx' = j
                    /\ pc' = "gotVisual"
                    /\ UNCHANGED <<mobileData, pageVisuals>>
           ELSE /\ pc' = "gotVisuals"
                /\ UNCHANGED <<logs, visualLocals>>
    /\ UNCHANGED <<aux, input, maps, normalized, pageLocals, bmIdx>>

\* parsePageVisuals: the visual is processed and stored in both maps
StoreVisual(mobile) ==
    IF ProcessThrows(visualData)
    THEN /\ pc' = "aborted"
         /\ UNCHANGED <<visuals, pageVisuals, normalized>>
    ELSE LET v == processVisualData(visualData, mobile)
         IN  /\ pageVisuals' = MapSet(pageVisuals, visualName, v)
             /\ visuals' = MapSet(visuals, VisualKey(pageName, visualName),
                                  GlobalVisual(v, pageName, visualName))
             /\ normalized' = TRUE
             /\ pc' = "visuals"

\* parsePageVisuals: the visual was read; its mobile.json is looked up
AfterVisual ==
    /\ pc = "gotVisual"
    /\ IF impl = "cli" /\ ~Truthy(visualData)
       THEN /\ pc' = "visuals"
            /\ UNCHANGED <<logs, visuals, pageVisuals, normalized, mobileData>>
       ELSE LET m == FileAt(MobilePath(files[visIdx].path))
            IN  IF m # 0
                THEN LET r == ReadJson(files[m], "visualContainerMobileState")
                     IN  /\ Logged(r, files[m], "visualContainerMobileState")
                         /\ mobileData' = r.data
                         /\ pc' = "gotMobile"
                         /\ UNCHANGED <<visuals, pageVisuals, normalized>>
                ELSE /\ StoreVisual(Null)
                     /\ UNCHANGED <<logs, mobileData>>
    /\ UNCHANGED <<aux, input, reportData, pages, bookmarks, pageLocals, visIdx,
                   visualName, visualData, bmIdx>>

\* parsePageVisuals: the mobile.json was read
AfterMobile ==
    /\ pc = "gotMobile"
    /\ StoreVisual(mobileData)
    /\ mobileData' = Null
    /\ UNCHANGED <<aux, input, reportData, pages, bookmarks, logs, pageLocals, visIdx,
                   visualName, visualData, bmIdx>>

\* parsePages: parsePageVisuals returned; the page is stored
PublishPage ==
    /\ pc = "gotVisuals"
    /\ pages' = MapSet(pages, pageName, PageRecord(pageData, pageName, pageVisuals))
    /\ normalized' = TRUE
    /\ pc' = "pages"
    /\ pageName' = <<>>
    /\ pageData' = Null
    /\ visIdx' = 0
    /\ visualName' = <<>>
    /\ visualData' = Null
    /\ pageVisuals' = EmptyMap
    /\ UNCHANGED <<aux, input, reportData, visuals, bookmarks, logs, fileIdx, mobileData, bmIdx>>

\* parseBookmarks, should the bookmark files be read without a bookmarks.json
ParseBookmarksList_Unguarded ==
    /\ pc = "bookmarks"
    /\ LET i == findFile(Join(<<"definition", "bookmarks", "bookmarks.json">>))
       IN  IF i # 0
           THEN /\ Logged(ReadJson(files[i], "bookmarksMetadata"), files[i],
                          "bookmarksMetadata")
                /\ pc' = "bookmarkFiles"
           ELSE /\ pc' = "bookmarkFiles"
                /\ UNCHANGED logs
    /\ UNCHANGED <<aux, input, maps, normalized, pageLocals, visualLocals, bmIdx>>

\* parseBookmarks: bookmarks.json
ParseBookmarksList ==
    /\ pc = "bookmarks"
    /\ LET i == findFile(Join(<<"definition", "bookmarks", "bookmarks.json">>))
       IN  IF i # 0
           THEN /\ Logged(ReadJson(files[i], "bookmarksMetadata"), files[i],
                          "bookmarksMetadata")
                /\ pc' = "bookmarkFiles"
           ELSE /\ pc' = "finish"
                /\ UNCHANGED logs
    /\ UNCHANGED <<aux, input, maps, normalized, pageLocals, visualLocals, bmIdx>>

\* parseBookmarks: the next bookmark file is read and stored
NextBookmark ==
    /\ pc = "bookmarkFiles"
    /\ LET j == NextIndex(bmIdx, IsBookmarkFile)
       IN  IF j # 0
           THEN LET r == ReadJson(files[j], "bookmark")
                IN  /\ Logged(r, files[j], "bookmark")
                    /\ bookmarks' =
                         IF impl = "cli" /\ ~Truthy(r.data) THEN bookmarks
                         ELSE MapSet(bookmarks, extractBookmarkName(files[j].path), r.data)
                    /\ bmIdx' = j
                    /\ pc' = "bookmarkFiles"
           ELSE /\ pc' = "finish"
                /\ UNCHANGED <<logs, bookmarks, bmIdx>>
    /\ UNCHANGED <<aux, input, reportData, pages, visuals, normalized, pageLocals, visualLocals>>

\* parseDirectory / parseFiles returns the result
Finish ==
    /\ pc = "finish"
    /\ pc' = "done"
    /\ UNCHANGED <<aux, input, maps, logs, normalized, pageLocals, visualLocals, bmIdx>>

Next ==
    \/ ParseReport
    \/ ParseVersion
    \/ ParseExtensions
    \/ ParsePagesList
    \/ NextPage
    \/ AfterPage
    \/ NextVisual
    \/ AfterVisual
    \/ AfterMobile
    \/ PublishPage
    \/ ParseBookmarksList
    \/ NextBookmark
    \/ Finish

Spec == Init /\ [][Next]_vars

(***************************************************************************)
(* The extract*Name methods on paths of every shape.  A path is the join   *)
(* of at most MaxSegments segments; a segment is a run of tokens, possibly *)
(* empty.                                                                  *)
(***************************************************************************)
Segments ==
    {<<>>, <<"x">>, <<"pages">>, <<"page.json">>, <<"visuals">>, <<"visual.json">>,
     <<"bookmarks">>, <<"x", ".bookmark.json">>, <<".bookmark.json">>}

SegmentLists == UNION {[1..n -> Segments] : n \in 1..MaxSegments}

RECURSIVE JoinSegments(_)
\* the text of the path with these segments
JoinSegments(segs) ==
    IF Len(segs) = 1 THEN segs[1]
    ELSE segs[1] \o <<Slash>> \o JoinSegments(Tail(segs))

InitPath ==
    /\ impl = "cli"
    /\ schemas = {}
    /\ files = <<>>
    /\ pc = "path"
    /\ pageName = <<>>
    /\ ParserIdle
    /\ InfoIdle
    /\ AppIdle
    /\ CallIdle
    /\ segments \in SegmentLists
    /\ givenPath = JoinSegments(segments)
    /\ match = <<>>

\* a call of method, whose result is value
Extract(method, value) ==
    /\ pc = "path"
    /\ match' = value
    /\ pc' = method
    /\ UNCHANGED <<input, maps, logs, normalized, pageLocals, visualLocals, bmIdx, callVars, appVars,
                   segments, givenPath, infoVars>>

ExtractPageName == Extract("extractPageName", extractPageName(givenPath))

ExtractVisualName == Extract("extractVisualName", extractVisualName(givenPath))

ExtractBookmarkName == Extract("extractBookmarkName", extractBookmarkName(givenPath))

NextPath == ExtractPageName \/ ExtractVisualName \/ ExtractBookmarkName

SpecPath == InitPath /\ [][NextPath]_vars

(***************************************************************************)
(* The page names of the CLI report: PBIRReportGenerator.parsePages reads  *)
(* the pages array of definition/pages/pages.json into pagesMetadata and   *)
(* then names the page pageName, whose page.json deserialized to an object *)
(* with the displayName given.  pagesData is [kind, pages]: the file is    *)
(* "absent", or "bad" (parseJsonFile returned null), or an object with     *)
(* "nopages", or an object with the "list" pages.                          *)
(***************************************************************************)
PageIds == {<<"p1">>, <<"p2">>}

\* a string that is neither undefined nor empty
NonEmpty(str) == str \notin {UNDEF, <<>>}

PageEntries ==
    [name : PageIds, displayName : {UNDEF, <<>>, <<"Overview">>, <<"Intro">>}]

PagesDocuments ==
    {[kind |-> k, pages |-> <<>>] : k \in {"absent", "bad", "nopages", "list"}}
    \cup {[kind |-> "list", pages |-> l] :
            l \in UNION {[1..n -> PageEntries] : n \in 1..MaxEntries}}

InitPageInfo ==
    /\ impl = "cli"
    /\ schemas = {}
    /\ files = <<>>
    /\ pc = "pagesFile"
    /\ pageName = <<"p1">>
    /\ ParserIdle
    /\ PathIdle
    /\ CallIdle
    /\ AppIdle
    /\ pagesData \in PagesDocuments
    /\ pagesMetadata = EmptyMap
    /\ entryIdx = 0
    /\ displayName \in {UNDEF, <<>>, <<"Sales">>}
    /\ pageInfo = <<>>

\* parsePages: pages.json is looked up and read
LoadPagesMetadata ==
    /\ pc = "pagesFile"
    /\ IF pagesData.kind = "list" /\ Len(pagesData.pages) > 0
       THEN pc' = "forEach" /\ entryIdx' = 1
       ELSE pc' = "pageFile" /\ UNCHANGED entryIdx
    /\ UNCHANGED <<input, maps, logs, normalized, pageLocals, visualLocals, bmIdx, callVars, appVars,
                   pathVars, pagesData, pagesMetadata, displayName, pageInfo>>

\* parsePages: pagesMetadata[page.name] = page
AddPageMetadata ==
    /\ pc = "forEach"
    /\ pagesMetadata' = MapSet(pagesMetadata, pagesData.pages[entryIdx].name,
                               pagesData.pages[entryIdx])
    /\ IF entryIdx < Len(pagesData.pages)
       THEN entryIdx' = entryIdx + 1 /\ UNCHANGED pc
       ELSE pc' = "pageFile" /\ UNCHANGED entryIdx
    /\ UNCHANGED <<input, maps, logs, normalized, pageLocals, visualLocals, bmIdx, callVars, appVars,
                   pathVars, pagesData, displayName, pageInfo>>

PageInfoName_ListFirst(own, metadata, id) ==
    IF id \in DOMAIN metadata /\ NonEmpty(metadata[id].displayName)
    THEN metadata[id].displayName
    ELSE IF NonEmpty(own) THEN own ELSE id

\* pageData.displayName || pagesMetadata[pageName]?.displayName || pageName
PageInfoName(own, metadata, id) ==
    IF NonEmpty(own) THEN own
    ELSE IF id \in DOMAIN metadata /\ NonEmpty(metadata[id].displayName)
         THEN metadata[id].displayName
         ELSE id

\* parsePages: the pageInfo of the page
BuildPageInfo ==
    /\ pc = "pageFile"
    /\ pageInfo' = PageInfoName(displayName, pagesMetadata, pageName)
    /\ pc' = "built"
    /\ UNCHANGED <<input, maps, logs, normalized, pageLocals, visualLocals, bmIdx, callVars, appVars,
                   pathVars, pagesData, pagesMetadata, entryIdx, displayName>>

NextPageInfo == LoadPagesMetadata \/ AddPageMetadata \/ BuildPageInfo

SpecPageInfo == InitPageInfo /\ [][NextPageInfo]_vars

(***************************************************************************)
(* The layout of a visual.  A JSON value is [t, v]: t is its type, v the   *)
(* number, or the length of the string, and 0 otherwise.  An object is a   *)
(* function from its keys to values; a key it lacks reads as undefined.    *)
(* The argument of a call is [position, direct]: visualData.position       *)
(* (undefined, null, or an object with the five coordinates) and the       *)
(* coordinates that visualData holds itself.                               *)
(***************************************************************************)
JsUndefined == [t |-> "undefined", v |-> 0]
JsNull == [t |-> "null", v |-> 0]
Num(n) == [t |-> "number", v |-> n]
Text(len) == [t |-> "string", v |-> len]

\* the operand of || counts as false
Falsy(x) ==
    \/ x.t \in {"undefined", "null"}
    \/ x.t \in {"number", "string"} /\ x.v = 0

\* x || d
OrElse(x, d) == IF Falsy(x) THEN d ELSE x

\* obj.k
Field(obj, k) == IF k \in DOMAIN obj THEN obj[k] ELSE JsUndefined

Coordinates == {"x", "y", "z", "width", "height"}

\* the values that a coordinate of a position may hold
CoordinateValues == {JsUndefined, JsNull, Num(0), Num(-10), Num(25), Text(4)}

\* the values of visualData.position
Positions ==
    {[kind |-> "undefined", f |-> [k \in Coordinates |-> JsUndefined]],
     [kind |-> "null", f |-> [k \in Coordinates |-> JsUndefined]]}
    \cup {[kind |-> "object", f |-> f] : f \in [Coordinates -> CoordinateValues]}

\* the coordinates that visualData holds itself: at most one
DirectCoordinates ==
    {[k \in Coordinates |-> JsUndefined]}
    \cup {[k \in Coordinates |-> IF k = c THEN x ELSE JsUndefined] :
            c \in Coordinates, x \in {JsNull, Num(7)}}

\* EnhancedPBIRParser.extractLayout
extractLayout(data) ==
    LET position == data.position
    IN  [k \in Coordinates \cup {"tabOrder"} |->
            IF position.kind = "object" /\ k \in Coordinates
            THEN OrElse(position.f[k], Num(0))
            ELSE Num(0)]

\* the key of the layout that PBIRParser.extractLayout fills from coordinate k
LayoutKey(k) == IF k = "z" THEN "zIndex" ELSE k

\* PBIRParser.extractLayout
extractLayoutWeb(data) ==
    LET position == data.position
        FromPosition(k) ==
            IF position.kind = "object" THEN OrElse(position.f[k], Num(0)) ELSE Num(0)
    IN  [key \in {LayoutKey(k) : k \in Coordinates} |->
            LET k == CHOOSE c \in Coordinates : LayoutKey(c) = key
            IN  IF data.direct[k] # JsUndefined
                THEN data.direct[k]
                ELSE FromPosition(k)]

\* PBIRParserEnhanced.validatePosition: null, or the validated position
validatePosition(position) ==
    IF position.kind # "object" THEN [k \in {} |-> JsUndefined]
    ELSE [k \in Coordinates \cup {"tabOrder", "angle"} |->
            IF k \in Coordinates THEN OrElse(position.f[k], Num(0)) ELSE JsUndefined]

InitLayout ==
    /\ impl = "cli"
    /\ schemas = {}
    /\ files = <<>>
    /\ pc = "layout"
    /\ pageName = <<>>
    /\ ParserIdle
    /\ PathIdle
    /\ InfoIdle
    /\ AppIdle
    /\ arg \in [position : Positions, direct : DirectCoordinates]
    /\ result = <<>>

\* a call of method at the position at of a run, whose result is value
Call(at, method, value) ==
    /\ pc = at
    /\ result' = value
    /\ pc' = method
    /\ UNCHANGED <<input, maps, logs, normalized, pageLocals, visualLocals, bmIdx,
                   pathVars, infoVars, appVars, arg>>

ExtractLayout == Call("layout", "extractLayout", extractLayout(arg))

ExtractLayoutWeb == Call("layout", "extractLayoutWeb", extractLayoutWeb(arg))

ValidatePosition == Call("layout", "validatePosition", validatePosition(arg.position))

NextLayout == ExtractLayout \/ ExtractLayoutWeb \/ ValidatePosition

SpecLayout == InitLayout /\ [][NextLayout]_vars

(***************************************************************************)
(* The type of a visual.  The argument of a call is [visualType,           *)
(* singleVisualType]: visualData.visual.visualType and                     *)
(* visualData.visual.singleVisual.visualType, each a string or undefined.  *)
(* A raw type is a sequence of tokens, each a run of characters.           *)
(***************************************************************************)
TypeTokens == {"columnChart", "image", "myVisual", "CV_", "PBI_", "abcdefghij"}

\* the number of characters of a token
CharLen(token) ==
    CASE token = "columnChart" -> 11
      [] token = "lineChart" -> 9
      [] token = "image" -> 5
      [] token = "myVisual" -> 8
      [] token = "CV_" -> 3
      [] token = "PBI_" -> 4
      [] token = "abcdefghij" -> 10
      [] token = "unknown" -> 7
      [] token = "card" -> 4
      [] token = "44929275" -> 8
      [] token = "ab" -> 2

RECURSIVE StringLength(_)
\* String.prototype.length
StringLength(str) ==
    IF str = <<>> THEN 0 ELSE CharLen(Head(str)) + StringLength(Tail(str))

\* String.prototype.startsWith
StartsWith(str, pat) == OccursAt(str, pat, 1)

RawTypes ==
    {UNDEF, <<>>} \cup UNION {[1..n -> TypeTokens] : n \in 1..MaxTypeTokens}

\* this.schemas.visualTypes of PBIRParserEnhanced
visualTypes ==
    {Str(t) : t \in {"columnChart", "barChart", "lineChart", "pieChart", "donutChart",
                     "scatterChart", "tableEx", "matrix", "card", "multiRowCard",
                     "gauge", "kpi", "slicer", "map", "filledMap", "treemap",
                     "waterfallChart", "ribbonChart", "funnel", "textbox"}}

\* the keys of typeMapping of PBIRReportGenerator.getVisualType
MappedTypes ==
    {Str(t) : t \in {"columnChart", "barChart", "lineChart", "pieChart", "card",
                     "multiRowCard", "tableEx", "matrix", "slicer", "textbox",
                     "image", "basicShape", "actionButton", "pivotTable",
                     "qnaVisual", "keyDriversVisual", "decompositionTreeVisual"}}

\* typeMapping[visualType], for a key of typeMapping
typeMapping(visualType) ==
    CASE visualType = Str("columnChart") -> Str("Column Chart")
      [] visualType = Str("barChart") -> Str("Bar Chart")
      [] visualType = Str("lineChart") -> Str("Line Chart")
      [] visualType = Str("pieChart") -> Str("Pie Chart")
      [] visualType = Str("card") -> Str("Card")
      [] visualType = Str("multiRowCard") -> Str("Multi-row Card")
      [] visualType = Str("tableEx") -> Str("Table")
      [] visualType = Str("matrix") -> Str("Matrix")
      [] visualType = Str("slicer") -> Str("Slicer")
      [] visualType = Str("textbox") -> Str("Text Box")
      [] visualType = Str("image") -> Str("Image")
      [] visualType = Str("basicShape") -> Str("Shape")
      [] visualType = Str("actionButton") -> Str("Button")
      [] visualType = Str("pivotTable") -> Str("Pivot Table")
      [] visualType = Str("qnaVisual") -> Str("Q&A Visual")
      [] visualType = Str("keyDriversVisual") -> Str("Key Drivers")
      [] visualType = Str("decompositionTreeVisual") -> Str("Decomposition Tree")

\* EnhancedPBIRParser.extractVisualProperties: properties.type
extractVisualProperties(data) ==
    LET first == IF NonEmpty(data.visualType) THEN data.visualType ELSE UNDEF
        second == IF NonEmpty(data.singleVisualType) THEN data.singleVisualType ELSE first
    IN  IF NonEmpty(second) THEN second ELSE Str("unknown")

\* PBIRParser.extractVisualProperties: properties.type
extractVisualPropertiesWeb(data) ==
    IF NonEmpty(data.visualType) THEN data.visualType
    ELSE IF NonEmpty(data.singleVisualType) THEN data.singleVisualType
    ELSE Str("unknown")

\* PBIRParserEnhanced.extractVisualPropertiesEnhanced: properties.type
extractVisualPropertiesEnhanced(data) ==
    LET type == IF NonEmpty(data.visualType) THEN data.visualType
                ELSE IF NonEmpty(data.singleVisualType) THEN data.singleVisualType
                ELSE Str("unknown")
    IN  IF type \in visualTypes THEN type ELSE Str("unknown")

\* the custom visual test of getVisualType, should it be length >= 30
IsCustomVisual_From30(visualType) ==
    \/ StartsWith(visualType, <<"PBI_", "CV_">>)
    \/ Includes(visualType, <<"CV_">>)
    \/ StringLength(visualType) >= 30

\* PBIRReportGenerator.getVisualType: the custom visual test
IsCustomVisual(visualType) ==
    \/ StartsWith(visualType, <<"PBI_", "CV_">>)
    \/ Includes(visualType, <<"CV_">>)
    \/ StringLength(visualType) > 30

\* PBIRReportGenerator.getVisualType
getVisualType(data) ==
    LET visualType == IF NonEmpty(data.visualType) THEN data.visualType
                      ELSE IF NonEmpty(data.singleVisualType) THEN data.singleVisualType
                      ELSE Str("unknown")
    IN  IF IsCustomVisual(visualType) THEN Str("Custom Visual")
        ELSE IF visualType \in MappedTypes THEN typeMapping(visualType)
        ELSE visualType

InitVisualType ==
    /\ impl = "cli"
    /\ schemas = {}
    /\ files = <<>>
    /\ pc = "type"
    /\ pageName = <<>>
    /\ ParserIdle
    /\ PathIdle
    /\ InfoIdle
    /\ AppIdle
    /\ arg \in [visualType : RawTypes,
                singleVisualType : {UNDEF, Str("lineChart"), Str("myVisual")}]
    /\ result = <<>>

ExtractVisualProperties ==
    Call("type", "extractVisualProperties", extractVisualProperties(arg))

ExtractVisualPropertiesWeb ==
    Call("type", "extractVisualPropertiesWeb", extractVisualPropertiesWeb(arg))

ExtractVisualPropertiesEnhanced ==
    Call("type", "extractVisualPropertiesEnhanced", extractVisualPropertiesEnhanced(arg))

GetVisualType == Call("type", "getVisualType", getVisualType(arg))

NextVisualType ==
    \/ ExtractVisualProperties
    \/ ExtractVisualPropertiesWeb
    \/ ExtractVisualPropertiesEnhanced
    \/ GetVisualType

SpecVisualType == InitVisualType /\ [][NextVisualType]_vars

(***************************************************************************)
(* The title of a visual.  The argument of a call is [containerTitle,      *)
(* legacyTitle, visualType, singleVisualType, name]: containerTitle is     *)
(* visualContainerObjects.title[0].properties.text.expr.Literal.Value,     *)
(* legacyTitle is                                                          *)
(* visual.singleVisual.objects.title[0].properties.text.literal.value,     *)
(* each a string or undefined.  "'" and " " are tokens of their own.       *)
(***************************************************************************)
\* title.replace(/^'|'$/g, '')
StripQuotes(str) ==
    LET a == IF str # <<>> /\ Head(str) = "'" THEN Tail(str) ELSE str
    IN  IF a # <<>> /\ a[Len(a)] = "'" THEN SubSeq(a, 1, Len(a) - 1) ELSE a

RECURSIVE Trim(_)
\* String.prototype.trim
Trim(str) ==
    IF str # <<>> /\ Head(str) = " " THEN Trim(Tail(str))
    ELSE IF str # <<>> /\ str[Len(str)] = " " THEN Trim(SubSeq(str, 1, Len(str) - 1))
    ELSE str

RECURSIVE Substring(_, _)
\* str.substring(0, n), for an n that ends at a token
Substring(str, n) ==
    IF str = <<>> \/ CharLen(Head(str)) > n THEN <<>>
    ELSE <<Head(str)>> \o Substring(Tail(str), n - CharLen(Head(str)))

\* properties.title of EnhancedPBIRParser / PBIRParser.extractVisualProperties
propertiesTitle(data) == data.legacyTitle

\* properties.title of PBIRParserEnhanced.extractVisualPropertiesEnhanced
propertiesTitleEnhanced(data) ==
    IF NonEmpty(data.visualType) \/ data.legacyTitle = UNDEF
    THEN Str("#null")
    ELSE data.legacyTitle

\* LayoutRenderer.drawVisualTitle: visualData.properties?.title || visualName
drawVisualTitle(name, data) ==
    IF NonEmpty(propertiesTitle(data)) THEN propertiesTitle(data) ELSE name

\* PBIRReportGenerator.getVisualDisplayName
getVisualDisplayName(data) ==
    LET container == IF NonEmpty(data.containerTitle)
                     THEN Trim(StripQuotes(data.containerTitle)) ELSE <<>>
        legacy == IF NonEmpty(data.legacyTitle) THEN Trim(data.legacyTitle) ELSE <<>>
        visualType == getVisualType(data)
        shortId == IF NonEmpty(data.name) THEN Substring(data.name, 8)
                   ELSE Str("unknown")
    IN  IF container # <<>> /\ container # Str("Title") THEN container
        ELSE IF legacy # <<>> THEN legacy
        ELSE IF visualType # Str("unknown")
             THEN visualType \o <<" ", "(">> \o shortId \o <<")">>
             ELSE <<"Visual", " ", "(">> \o shortId \o <<")">>

ContainerTitles ==
    {UNDEF, <<>>, Str("Revenue Trend"), <<"'", "Revenue Trend", "'">>,
     <<"'", "Title", "'">>, <<"'", " ", "'">>}

LegacyTitles == {UNDEF, <<>>, Str("Chart1"), <<" ">>}

InitTitle ==
    /\ impl = "cli"
    /\ schemas = {}
    /\ files = <<>>
    /\ pc = "title"
    /\ pageName = <<>>
    /\ ParserIdle
    /\ PathIdle
    /\ InfoIdle
    /\ AppIdle
    /\ arg \in [containerTitle : ContainerTitles,
                legacyTitle : LegacyTitles,
                visualType : {UNDEF, Str("card")},
                singleVisualType : {UNDEF},
                name : {UNDEF, <<"44929275", "ab">>}]
    /\ result = <<>>

ExtractTitle == Call("title", "propertiesTitle", propertiesTitle(arg))

ExtractTitleEnhanced ==
    Call("title", "propertiesTitleEnhanced", propertiesTitleEnhanced(arg))

DrawVisualTitle == Call("title", "drawVisualTitle", drawVisualTitle(Str("v1"), arg))

GetVisualDisplayName ==
    Call("title", "getVisualDisplayName", getVisualDisplayName(arg))

NextTitle ==
    ExtractTitle \/ ExtractTitleEnhanced \/ DrawVisualTitle \/ GetVisualDisplayName

SpecTitle == InitTitle /\ [][NextTitle]_vars

(***************************************************************************)
(* The aggregation functions.  The argument of a call is the function code *)
(* (Aggregation.Function): a number, null or undefined.                    *)
(***************************************************************************)
\* the table of an object literal with the keys 0..Len(names)-1
Table(names) == [c \in 0..(Len(names) - 1) |-> Str(names[c + 1])]

\* functions of PBIRParser.getAggregationFunction
functions == Table(<<"Sum", "Average", "Min", "Max", "Count", "CountDistinct">>)

\* this.schemas.aggregationFunctions of PBIRParserEnhanced
aggregationFunctions ==
    Table(<<"Sum", "Average", "DistinctCount", "Min", "Max", "Count", "Median",
            "StandardDeviation", "Variance">>)

\* aggregationTypes of PBIRReportGenerator
aggregationTypes ==
    Table(<<"Sum", "Average", "Count (Distinct)", "Min", "Max", "Count">>)

\* table[funcId], should a missing key not fall back to 'Unknown'
Lookup_NoDefault(table, funcId) ==
    IF funcId.t = "number" /\ funcId.v \in DOMAIN table THEN table[funcId.v] ELSE UNDEF

\* table[funcId] || 'Unknown'
Lookup(table, funcId) ==
    IF funcId.t = "number" /\ funcId.v \in DOMAIN table
    THEN table[funcId.v]
    ELSE Str("Unknown")

\* PBIRParser.getAggregationFunction
getAggregationFunction(funcId) == Lookup(functions, funcId)

\* PBIRParserEnhanced.parseSelectExpression: aggregation
parseSelectExpression(funcId) == Lookup(aggregationFunctions, funcId)

\* PBIRReportGenerator: aggregation
aggregationType(funcId) == Lookup(aggregationTypes, funcId)

FunctionCodes == {JsUndefined, JsNull} \cup {Num(c) : c \in -1..MaxCode}

InitAggregation ==
    /\ impl = "cli"
    /\ schemas = {}
    /\ files = <<>>
    /\ pc = "aggregation"
    /\ pageName = <<>>
    /\ ParserIdle
    /\ PathIdle
    /\ InfoIdle
    /\ AppIdle
    /\ arg \in FunctionCodes
    /\ result = <<>>

GetAggregationFunction ==
    Call("aggregation", "getAggregationFunction", getAggregationFunction(arg))

ParseSelectExpression ==
    Call("aggregation", "parseSelectExpression", parseSelectExpression(arg))

AggregationType == Call("aggregation", "aggregationType", aggregationType(arg))

NextAggregation == GetAggregationFunction \/ ParseSelectExpression \/ AggregationType

SpecAggregation == InitAggregation /\ [][NextAggregation]_vars

(***************************************************************************)
(* The filter conditions.  A condition document is an object with one of   *)
(* the keys In, Between, And, Or, Not, Comparison; the children of And and *)
(* Or come as an array or as an object {Left, Right} (`list`).  A node     *)
(* built by parseConditionExpression has none of these keys and a `type`.  *)
(***************************************************************************)
Thrown == <<"#TypeError">>

\* JSON.stringify(value): a dump that is no rendering
Stringify == <<"#JSON">>

StringExpr(text) == [form |-> "string", text |-> text, property |-> <<>>]

LiteralExpr(text) == [form |-> "Literal", text |-> text, property |-> <<>>]

ColumnExpr(text, property) == [form |-> "Column", text |-> text, property |-> property]

Condition(key, list, kids, exprs, values, kind) ==
    [key |-> key, type |-> "", list |-> list, kids |-> kids, exprs |-> exprs,
     values |-> values, kind |-> kind]

NullNode == [Condition("null", FALSE, <<>>, <<>>, <<>>, UNDEF) EXCEPT !.type = "null"]

Node(type, kids, exprs, values, kind) ==
    [Condition("none", FALSE, kids, exprs, values, kind) EXCEPT !.type = type]

\* this.schemas.comparisonKinds of PBIRParserEnhanced
comparisonKinds ==
    Table(<<"Equal", "GreaterThan", "GreaterThanOrEqual", "LessThan", "LessThanOrEqual">>)

\* the elements of a list of strings with a separator between them
RECURSIVE JoinWith(_, _)
JoinWith(parts, separator) ==
    IF parts = <<>> THEN <<>>
    ELSE IF Len(parts) = 1 THEN parts[1]
    ELSE parts[1] \o separator \o JoinWith(Tail(parts), separator)

\* this.schemas.comparisonKinds[comp.ComparisonKind] || 'Unknown'; the keys of
\* an object are strings, so the code 1 and the string '1' find the same entry
comparisonKind(kind) ==
    IF \E c \in DOMAIN comparisonKinds : kind = Str(ToString(c))
    THEN comparisonKinds[CHOOSE c \in DOMAIN comparisonKinds : kind = Str(ToString(c))]
    ELSE Str("Unknown")

\* PBIRParser.formatExpression
formatExpression(expression) ==
    IF expression.form = "string" THEN expression.text
    ELSE IF expression.form = "Column"
    THEN expression.text \o <<".">> \o expression.property
    ELSE IF expression.form = "Aggregation"
    THEN expression.text \o <<" (">> \o expression.property \o <<")">>
    ELSE IF expression.form = "Literal" THEN expression.text
    ELSE Stringify

\* `(${conditions.join(separator)})`
Parenthesised(conditions, separator) ==
    <<"(">> \o JoinWith(conditions, separator) \o <<")">>

\* PBIRParser.formatFilterObject; filterObj.And.map throws on an object, as
\* does filterObj.In on null
RECURSIVE formatFilterObject(_)
formatFilterObject(filterObj) ==
    LET conditions == [i \in DOMAIN filterObj.kids |-> formatFilterObject(filterObj.kids[i])]
        throws == \E i \in DOMAIN conditions : conditions[i] = Thrown
    IN  IF filterObj.key = "null" THEN Thrown
        ELSE IF filterObj.key = "In"
        THEN <<"IN (">>
                 \o JoinWith([i \in DOMAIN filterObj.exprs |->
                                  formatExpression(filterObj.exprs[i])], <<", ">>)
                 \o <<")">>
        ELSE IF filterObj.key = "Between"
        THEN <<"BETWEEN ">> \o formatExpression(filterObj.exprs[1]) \o <<" AND ">>
                 \o formatExpression(filterObj.exprs[2])
        ELSE IF filterObj.key = "And"
        THEN IF ~filterObj.list \/ throws THEN Thrown
             ELSE Parenthesised(conditions, <<" AND ">>)
        ELSE IF filterObj.key = "Or"
        THEN IF ~filterObj.list \/ throws THEN Thrown
             ELSE Parenthesised(conditions, <<" OR ">>)
        ELSE IF filterObj.key = "Not"
        THEN IF throws THEN Thrown ELSE <<"NOT (">> \o conditions[1] \o <<")">>
        ELSE IF filterObj.key = "Comparison"
        THEN filterObj.kind \o <<" ">> \o formatExpression(filterObj.exprs[1])
        ELSE Stringify

\* PBIRParserEnhanced.parseConditionExpression; And.Left of an array is undefined
RECURSIVE parseConditionExpression(_)
parseConditionExpression(condition) ==
    LET children == IF condition.list
                    THEN <<NullNode, NullNode>>
                    ELSE [i \in DOMAIN condition.kids |->
                              parseConditionExpression(condition.kids[i])]
    IN  IF condition.key = "null" THEN NullNode
        ELSE IF condition.key = "Comparison"
        THEN Node("Comparison", <<>>, condition.exprs, <<>>,
                  comparisonKind(condition.kind))
        ELSE IF condition.key = "In"
        THEN Node("In", <<>>, condition.exprs, condition.values, UNDEF)
        ELSE IF condition.key = "Between"
        THEN Node("Between", <<>>, condition.exprs, <<>>, UNDEF)
        ELSE IF condition.key \in {"And", "Or"}
        THEN Node(condition.key, children, <<>>, <<>>, UNDEF)
        ELSE condition

A == <<"A">>

B == <<"B">>

Ten == <<"10">>

GreaterThanKinds == {Str("1"), Str("GreaterThan")}

\* comp.ComparisonKind: the codes 1 and 5 and the name GreaterThan
ComparisonKinds == GreaterThanKinds \cup {Str("5")}

Leaves ==
    {Condition("In", FALSE, <<>>, <<StringExpr(A), StringExpr(B)>>, <<>>, UNDEF),
     Condition("In", FALSE, <<>>, <<ColumnExpr(<<"t">>, <<"c">>)>>,
               <<LiteralExpr(A), LiteralExpr(B)>>, UNDEF),
     Condition("Between", FALSE, <<>>, <<LiteralExpr(<<"1">>), LiteralExpr(Ten)>>, <<>>,
               UNDEF),
     Condition("none", FALSE, <<>>, <<>>, <<>>, UNDEF),
     NullNode}
        \cup {Condition("Comparison", FALSE, <<>>, <<LiteralExpr(Ten)>>, <<>>, kind) :
                  kind \in ComparisonKinds}

RECURSIVE Conditions(_)
Conditions(depth) ==
    IF depth = 0 THEN Leaves
    ELSE LET below == Conditions(depth - 1)
         IN  below
                 \cup {Condition(key, list, <<left, right>>, <<>>, <<>>, UNDEF) :
                           key \in {"And", "Or"}, list \in BOOLEAN,
                           left \in below, right \in below}
                 \cup {Condition("Not", FALSE, <<child>>, <<>>, <<>>, UNDEF) :
                           child \in below}

InitCondition ==
    /\ impl = "cli"
    /\ schemas = {}
    /\ files = <<>>
    /\ pc = "condition"
    /\ pageName = <<>>
    /\ ParserIdle
    /\ PathIdle
    /\ InfoIdle
    /\ AppIdle
    /\ arg \in Conditions(MaxDepth)
    /\ result = <<>>

FormatFilterObject == Call("condition", "formatFilterObject", formatFilterObject(arg))

ParseConditionExpression ==
    Call("condition", "parseConditionExpression", parseConditionExpression(arg))

NextCondition == FormatFilterObject \/ ParseConditionExpression

SpecCondition == InitCondition /\ [][NextCondition]_vars

(***************************************************************************)
(* The filters of filterConfig.filters.  A filter is its type tag and its  *)
(* name; the argument of a call is the list.                               *)
(***************************************************************************)
\* this.schemas.filterTypes of PBIRParserEnhanced
filterTypes ==
    {Str(t) : t \in {"Categorical", "Range", "Advanced", "Passthrough", "TopN", "Include",
                     "Exclude", "RelativeDate", "Tuple", "RelativeTime", "VisualTopN"}}

Filter(type, name) == [type |-> type, name |-> name]

\* PBIRParserEnhanced.parseFilterContainer: null for a type outside filterTypes
Accepted(filterContainer) == filterContainer.type \in filterTypes

\* PBIRParserEnhanced.extractFiltersEnhanced: the filterConfig part
extractFiltersEnhanced(filters) == SelectSeq(filters, Accepted)

\* EnhancedPBIRParser.parseFilterFromSchema
parseFilterFromSchema(filter) ==
    Filter(IF filter.type = UNDEF THEN Str("Unknown") ELSE filter.type, filter.name)

\* EnhancedPBIRParser.extractFilters: the filterConfig part
extractFilters(filters) == [i \in DOMAIN filters |-> parseFilterFromSchema(filters[i])]

\* PBIRParser.parseFilterConfig: formatFilterConfig joins the filters of the
\* list into one string, which becomes the description of one filter
parseFilterConfig(filters) == <<Filter(Str("Visual Filter Config"), UNDEF)>>

FilterTags == {Str("Categorical"), Str("TopN"), Str("Advanced"), Str("Custom"), UNDEF}

\* the name of the filter at a position of the list
FilterName(position) == <<"f", ToString(position)>>

FilterLists ==
    UNION {{[i \in 1..n |-> Filter(tags[i], FilterName(i))] : tags \in [1..n -> FilterTags]} :
               n \in 0..MaxFilters}

InitFilters ==
    /\ impl = "cli"
    /\ schemas = {}
    /\ files = <<>>
    /\ pc = "filters"
    /\ pageName = <<>>
    /\ ParserIdle
    /\ PathIdle
    /\ InfoIdle
    /\ AppIdle
    /\ arg \in FilterLists
    /\ result = <<>>

ExtractFiltersEnhanced ==
    Call("filters", "extractFiltersEnhanced", extractFiltersEnhanced(arg))

ExtractFilters == Call("filters", "extractFilters", extractFilters(arg))

ParseFilterConfig == Call("filters", "parseFilterConfig", parseFilterConfig(arg))

NextFilters == ExtractFiltersEnhanced \/ ExtractFilters \/ ParseFilterConfig

SpecFilters == InitFilters /\ [][NextFilters]_vars

(***************************************************************************)
(* The literal resolver.  A property is an object that may hold the        *)
(* wrappers literal {value}, solid {color}, expr {Literal {Value}} and     *)
(* expression; `present` is FALSE for a missing property.  What a call     *)
(* returns is a value, null, the property itself, its JSON dump or a throw.*)
(***************************************************************************)
Returns(kind, value) == [kind |-> kind, value |-> value]

\* PBIRParserEnhanced.extractLiteralValue
extractLiteralValue(property) ==
    IF ~property.present THEN Returns("null", <<>>)
    ELSE IF property.literal # UNDEF THEN Returns("value", property.literal)
    ELSE IF property.solid # UNDEF THEN Returns("value", property.solid)
    ELSE Returns("property", <<>>)

\* PBIRParser.formatPropertyValue; prop.literal throws on a missing prop
formatPropertyValue(prop) ==
    IF ~prop.present THEN Returns("throw", <<>>)
    ELSE IF prop.literal # UNDEF THEN Returns("value", prop.literal)
    ELSE IF prop.expression # UNDEF
    THEN Returns("value", formatExpression(StringExpr(prop.expression)))
    ELSE Returns("json", <<>>)

WrapperValues(wrapper) == {UNDEF, <<wrapper, "1">>, <<wrapper, "2">>}

Properties ==
    {[present |-> FALSE, literal |-> UNDEF, solid |-> UNDEF, expr |-> UNDEF,
      expression |-> UNDEF]}
        \cup [present : {TRUE}, literal : WrapperValues("literal"),
              solid : WrapperValues("solid"), expr : WrapperValues("expr"),
              expression : WrapperValues("expression")]

InitLiteral ==
    /\ impl = "cli"
    /\ schemas = {}
    /\ files = <<>>
    /\ pc = "literal"
    /\ pageName = <<>>
    /\ ParserIdle
    /\ PathIdle
    /\ InfoIdle
    /\ AppIdle
    /\ arg \in Properties
    /\ result = <<>>

ExtractLiteralValue == Call("literal", "extractLiteralValue", extractLiteralValue(arg))

FormatPropertyValue == Call("literal", "formatPropertyValue", formatPropertyValue(arg))

NextLiteral == ExtractLiteralValue \/ FormatPropertyValue

SpecLiteral == InitLiteral /\ [][NextLiteral]_vars

(***************************************************************************)
(* The fields of a visual.  The argument of a call is the singleVisual of  *)
(* a visual document: the field names its dataRoles refer to and its       *)
(* prototypeQuery.Select list, each entry with a Name and one of the keys  *)
(* Measure, Column, Hierarchy, Aggregation, or none of them.               *)
(***************************************************************************)
Select(name, key) == [name |-> name, key |-> key]

\* the Names of the entries a test accepts, in Select order
Pushed(selects, keys) ==
    LET Accepts(select) == select.key \in keys
        kept == SelectSeq(selects, Accepts)
    IN  [i \in DOMAIN kept |-> kept[i].name]

Fields(dataRoles, measures, dimensions, hierarchies) ==
    [dataRoles |-> dataRoles, measures |-> measures, dimensions |-> dimensions,
     hierarchies |-> hierarchies]

\* EnhancedPBIRParser.extractFields
extractFields(singleVisual) ==
    Fields(singleVisual.dataRoles, Pushed(singleVisual.Select, {"Measure"}),
           Pushed(singleVisual.Select, {"Column"}), <<>>)

\* PBIRParser.extractFields, for a singleVisual without vcObjects
extractFieldsWeb(singleVisual) ==
    Fields(singleVisual.dataRoles, Pushed(singleVisual.Select, {"Measure"}),
           Pushed(singleVisual.Select, {"Column"}), <<>>)

\* PBIRParserEnhanced.extractFieldsEnhanced with parseSelectExpression
extractFieldsEnhanced(singleVisual) ==
    Fields(singleVisual.dataRoles, Pushed(singleVisual.Select, {"Measure", "Aggregation"}),
           Pushed(singleVisual.Select, {"Column"}),
           Pushed(singleVisual.Select, {"Hierarchy"}))

FieldNames == {Str("Sales"), Str("Region")}

SelectKeys == {"Measure", "Column", "Hierarchy", "Aggregation", "none"}

SelectLists ==
    UNION {[1..n -> {Select(name, key) : name \in FieldNames, key \in SelectKeys}] :
               n \in 0..MaxSelect}

InitFields ==
    /\ impl = "cli"
    /\ schemas = {}
    /\ files = <<>>
    /\ pc = "fields"
    /\ pageName = <<>>
    /\ ParserIdle
    /\ PathIdle
    /\ InfoIdle
    /\ AppIdle
    /\ arg \in [dataRoles : SUBSET FieldNames, Select : SelectLists]
    /\ result = <<>>

ExtractFields == Call("fields", "extractFields", extractFields(arg))

ExtractFieldsWeb == Call("fields", "extractFieldsWeb", extractFieldsWeb(arg))

ExtractFieldsEnhanced == Call("fields", "extractFieldsEnhanced", extractFieldsEnhanced(arg))

NextFields == ExtractFields \/ ExtractFieldsWeb \/ ExtractFieldsEnhanced

SpecFields == InitFields /\ [][NextFields]_vars

(***************************************************************************)
(* The web app: one PBIRParser, made in the constructor of PowerBIApp, and *)
(* parseFiles called on it for each upload.                                *)
(***************************************************************************)
UploadPaths ==
    {Def(<<"report.json">>), Def(<<"pages", "p1", "page.json">>),
     Def(<<"pages", "p1", "visuals", "v1", "visual.json">>),
     Def(<<"pages", "p1", "visuals", "v1", "mobile.json">>),
     Def(<<"pages", "p2", "page.json">>), Def(<<"bookmarks", "bookmarks.json">>),
     BookmarkPath("b1")}

\* the folders a user may upload: documents that deserialize to objects
Uploads ==
    {fs \in DocumentSets :
        /\ fs # <<>>
        /\ \A i \in DOMAIN fs : fs[i].doc.kind = "obj" /\ fs[i].path \in UploadPaths}

InitUpload ==
    /\ impl = "web"
    /\ schemas = {}
    /\ files \in Uploads
    /\ pc = "report"
    /\ pageName = <<>>
    /\ ParserIdle
    /\ PathIdle
    /\ InfoIdle
    /\ AppIdle
    /\ CallIdle

\* PowerBIApp.handleFileUpload for another folder: this.parser.parseFiles(files)
\* on the parser of the upload before; the locals of parseFiles are new
HandleFileUpload ==
    /\ pc \in {"done", "aborted"}
    /\ impl = "web"
    /\ uploaded = <<>>
    /\ uploaded' = files
    /\ files' \in Uploads
    /\ pc' = "report"
    /\ fileIdx' = 0
    /\ pageName' = <<>>
    /\ pageData' = Null
    /\ visIdx' = 0
    /\ visualName' = <<>>
    /\ visualData' = Null
    /\ mobileData' = Null
    /\ pageVisuals' = EmptyMap
    /\ bmIdx' = 0
    /\ UNCHANGED <<impl, schemas, maps, logs, normalized, pathVars, infoVars, callVars,
                   currentPage, rendererVars, visualInfo, handled>>

NextUpload == Next \/ HandleFileUpload

SpecUpload == InitUpload /\ [][NextUpload]_vars

(***************************************************************************)
(* A report directory whose page and visual identifiers contain ':'.       *)
(***************************************************************************)
\* definition/ and the segments, each a run of characters
DefPath(segs) == JoinSegments(<<<<"definition">>>> \o segs)

ColonDocuments == <<
    [path |-> BookmarkPath("b1"), doc |-> Obj([name |-> Str("b1")])],
    [path |-> Def(<<"bookmarks", "bookmarks.json">>), doc |-> Obj([name |-> UNDEF])],
    [path |-> DefPath(<<<<"pages">>, <<"p">>, <<"page.json">>>>),
     doc |-> Obj([name |-> Str("p")])],
    [path |-> DefPath(<<<<"pages">>, <<"p">>, <<"visuals">>, <<"q", ":", "r">>,
                        <<"mobile.json">>>>),
     doc |-> Obj([schema |-> Str("mobile/1.0"), position |-> OBJECT])],
    [path |-> DefPath(<<<<"pages">>, <<"p">>, <<"visuals">>, <<"q", ":", "r">>,
                        <<"visual.json">>>>),
     doc |-> Obj([name |-> Str("first")])],
    [path |-> DefPath(<<<<"pages">>, <<"p", ":", "q">>, <<"page.json">>>>),
     doc |-> Obj([name |-> Str("p:q")])],
    [path |-> DefPath(<<<<"pages">>, <<"p", ":", "q">>, <<"visuals">>, <<"r">>,
                        <<"visual.json">>>>),
     doc |-> Obj([name |-> Str("second")])],
    [path |-> Def(<<"report.json">>), doc |-> Obj([schema |-> Str("report/1.0")])]
>>

\* the documents of ColonDocuments from index i on that a directory holds
RECURSIVE ColonSets(_)
ColonSets(i) ==
    IF i > Len(ColonDocuments) THEN {<<>>}
    ELSE LET rest == ColonSets(i + 1)
         IN  rest \cup {<<ColonDocuments[i]>> \o fs : fs \in rest}

InitColon ==
    /\ impl \in {"cli", "web"}
    /\ schemas = {}
    /\ files \in ColonSets(1)
    /\ pc = "report"
    /\ pageName = <<>>
    /\ ParserIdle
    /\ PathIdle
    /\ InfoIdle
    /\ AppIdle
    /\ CallIdle

SpecColon == InitColon /\ [][Next]_vars

(***************************************************************************)
(* The page view of the web application: PowerBIApp and its LayoutRenderer.*)
(* pages is here reportData.pages of the application, the pages of the     *)
(* report in the order of Object.keys; a page is its name and its visuals  *)
(* in the order of Object.entries, each a name and a layout.  A number 0   *)
(* of a layout also stands for a missing one: both are falsy.              *)
(***************************************************************************)
\* canvas.offsetWidth, canvas.offsetHeight, and the rect of the canvas
CanvasWidth == 1000

CanvasHeight == 800

\* const padding = 50
padding == 50

\* layout.width || 100, layout.height || 100
DefaultSize == 100

Layout(x, y, width, height) == [x |-> x, y |-> y, width |-> width, height |-> height]

Visual(name, layout) == [name |-> name, layout |-> layout]

\* a page as parseFiles assembles it: visuals is always an object
Page(name, vs) == [name |-> name, visuals |-> vs, hasVisuals |-> TRUE]

\* a || b on numbers
OrNumber(a, b) == IF a = 0 THEN b ELSE a

SetMin(S) == CHOOSE m \in S : \A n \in S : m <= n

SetMax(S) == CHOOSE m \in S : \A n \in S : m >= n

\* the pages a report of the model is made of: two overlapping visuals, a
\* visual of the same name without a size, and a page without visuals
ReportPages ==
    { Page("p1", << Visual("v1", Layout(0, 0, 200, 200)),
                    Visual("v2", Layout(100, 100, 200, 200)) >>),
      Page("p2", << Visual("v1", Layout(0, 0, 0, 0)) >>),
      Page("p3", << >>) }

\* the reports: the pages in any order, each at most once
Reports ==
    { r \in UNION { [1..n -> ReportPages] : n \in 0..3 } :
        \A i, j \in DOMAIN r : r[i] = r[j] => i = j }

\* the points of the canvas a click is made at
ClickPoints == { <<0, 0>>, <<400, 300>>, <<500, 400>>, <<600, 500>>, <<550, 450>> }

PageNames == { pages[i].name : i \in DOMAIN pages }

\* reportData.pages[pageName]
PageNamed(name) == pages[CHOOSE i \in DOMAIN pages : pages[i].name = name]

\* calculateViewport: the content of every page of the model fits the canvas,
\* so that Math.min(..., 1) is 1; without visuals the extent is infinite and
\* the offsets are NaN
calculateViewport(vs) ==
    IF vs = <<>>
    THEN [scale |-> 0, offsetX |-> 0, offsetY |-> 0, nan |-> TRUE]
    ELSE LET minX == SetMin({ OrNumber(vs[i].layout.x, 0) : i \in DOMAIN vs })
             minY == SetMin({ OrNumber(vs[i].layout.y, 0) : i \in DOMAIN vs })
             maxX == SetMax({ OrNumber(vs[i].layout.x, 0)
                                + OrNumber(vs[i].layout.width, DefaultSize) : i \in DOMAIN vs })
             maxY == SetMax({ OrNumber(vs[i].layout.y, 0)
                                + OrNumber(vs[i].layout.height, DefaultSize) : i \in DOMAIN vs })
             contentWidth == maxX - minX + (padding * 2)
             contentHeight == maxY - minY + (padding * 2)
         IN  [scale |-> 1,
              offsetX |-> (CanvasWidth - contentWidth) \div 2 - minX + padding,
              offsetY |-> (CanvasHeight - contentHeight) \div 2 - minY + padding,
              nan |-> FALSE]

\* the content of every page fits the canvas, and the centring is exact
Fits(vs) ==
    \/ vs = <<>>
    \/ LET minX == SetMin({ OrNumber(vs[i].layout.x, 0) : i \in DOMAIN vs })
           minY == SetMin({ OrNumber(vs[i].layout.y, 0) : i \in DOMAIN vs })
           maxX == SetMax({ OrNumber(vs[i].layout.x, 0)
                              + OrNumber(vs[i].layout.width, DefaultSize) : i \in DOMAIN vs })
           maxY == SetMax({ OrNumber(vs[i].layout.y, 0)
                              + OrNumber(vs[i].layout.height, DefaultSize) : i \in DOMAIN vs })
       IN  /\ maxX - minX + (padding * 2) <= CanvasWidth
           /\ maxY - minY + (padding * 2) <= CanvasHeight
           /\ (CanvasWidth - (maxX - minX)) % 2 = 0
           /\ (CanvasHeight - (maxY - minY)) % 2 = 0

\* drawVisual: the element pushed to visualElements
drawVisual(page, v, view) ==
    [name |-> v.name,
     data |-> [page |-> page, name |-> v.name],
     bounds |-> Layout(OrNumber(v.layout.x, 0) * view.scale + view.offsetX,
                       OrNumber(v.layout.y, 0) * view.scale + view.offsetY,
                       OrNumber(v.layout.width, DefaultSize) * view.scale,
                       OrNumber(v.layout.height, DefaultSize) * view.scale)]

\* what a drawing operation leaves on the canvas
Drawn(op, name, selected) == [op |-> op, name |-> name, selected |-> selected]

\* renderPage(pageData) with the selection sel: the visualElements and the
\* canvas it leaves
renderPage(page, sel) ==
    IF ~page.hasVisuals
    THEN [visualElements |-> <<>>,
          canvas |-> << Drawn("emptyState", "", FALSE) >>]
    ELSE LET view == calculateViewport(page.visuals)
             elements == [i \in DOMAIN page.visuals |->
                             drawVisual(page.name, page.visuals[i], view)]
         IN  [visualElements |-> elements,
              canvas |-> << Drawn("pageBackground", "", FALSE) >>
                         \o [i \in DOMAIN elements |->
                                Drawn("visual", elements[i].name, elements[i].data = sel)]
                         \o << Drawn("grid", "", FALSE) >>]

\* what a handler did
Did(what, detail) == [what |-> what, detail |-> detail]

\* displayPageInfo(pageData): the content of visual-info
displayPageInfo(page) ==
    IF ~page.hasVisuals \/ Len(page.visuals) = 0
    THEN [kind |-> "No visuals on this page", page |-> page.name, name |-> ""]
    ELSE [kind |-> "Page Overview", page |-> page.name, name |-> ""]

\* handleVisualSelection(detail): the content of visual-info, and whether it
\* threw; reportData is null before the upload, and pages[currentPage] is
\* undefined while no page was chosen
handleVisualSelection(detail, loaded) ==
    IF detail = NoVisual
    THEN IF ~loaded \/ currentPage \notin PageNames
         THEN [info |-> visualInfo, did |-> << Did("TypeError", NoVisual) >>]
         ELSE [info |-> displayPageInfo(PageNamed(currentPage)),
               did |-> << Did("displayPageInfo", NoVisual) >>]
    ELSE [info |-> [kind |-> "selected-visual", page |-> detail.page, name |-> detail.name],
          did |-> << Did("visualDetails", detail) >>]

\* selectVisual(element) in the handler of event, element.data being data
\* (NoVisual for null), with the listener of visualSelected, which
\* dispatchEvent runs before it returns
SelectVisual(event, data) ==
    LET again == IF rendered # ""
                 THEN renderPage(PageNamed(rendered), data)
                 ELSE [visualElements |-> visualElements, canvas |-> canvas]
        listener == handleVisualSelection(data, pc = "displayed")
    IN  /\ selectedVisual' = data
        /\ visualElements' = again.visualElements
        /\ canvas' = again.canvas
        /\ visualInfo' = listener.info
        /\ handled' = << Did(event, NoVisual) >>
                      \o (IF rendered # "" THEN << Did("renderPage", NoVisual) >> ELSE <<>>)
                      \o << Did("visualSelected", data) >> \o listener.did
        /\ UNCHANGED <<rendered, currentPage>>

\* x >= bounds.x && x <= bounds.x + bounds.width && y >= ... in handleClick
Contains(bounds, x, y) ==
    /\ x >= bounds.x
    /\ x <= bounds.x + bounds.width
    /\ y >= bounds.y
    /\ y <= bounds.y + bounds.height

\* handleClick taking the element drawn last, the one on top
Clicked_Topmost(x, y) ==
    LET hits == { i \in DOMAIN visualElements : Contains(visualElements[i].bounds, x, y) }
    IN  IF hits = {} THEN NoVisual ELSE visualElements[SetMax(hits)].data

\* handleClick: the data of the first element whose bounds contain the point
Clicked(x, y) ==
    LET hits == { i \in DOMAIN visualElements : Contains(visualElements[i].bounds, x, y) }
    IN  IF hits = {} THEN NoVisual ELSE visualElements[SetMin(hits)].data

\* switchPage(pageName) for a page of reportData.pages
switchPage(name) ==
    LET page == PageNamed(name)
        shown == renderPage(page, selectedVisual)
    IN  /\ currentPage' = name
        /\ rendered' = name
        /\ visualElements' = shown.visualElements
        /\ canvas' = shown.canvas
        /\ visualInfo' = displayPageInfo(page)
        /\ UNCHANGED selectedVisual

InitRenderer ==
    /\ impl = "web"
    /\ schemas = {}
    /\ files = <<>>
    /\ pc = "constructed"
    /\ pageName = <<>>
    /\ reportData = Null
    /\ pages \in { r \in Reports : \A i \in DOMAIN r : Fits(r[i].visuals) }
    /\ visuals = EmptyMap
    /\ bookmarks = EmptyMap
    /\ parseErrors = <<>>
    /\ parseWarnings = <<>>
    /\ readLog = <<>>
    /\ normalized = FALSE
    /\ fileIdx = 0
    /\ pageData = Null
    /\ visIdx = 0
    /\ visualName = <<>>
    /\ visualData = Null
    /\ mobileData = Null
    /\ pageVisuals = EmptyMap
    /\ bmIdx = 0
    /\ PathIdle
    /\ InfoIdle
    /\ AppIdle
    /\ CallIdle

\* handleFileUpload once parseFiles has returned the report: the navigation
\* is set up and the first page, if any, is switched to
DisplayReport ==
    /\ pc = "constructed"
    /\ pc' = "displayed"
    /\ handled' = << Did("pbir-upload.change", NoVisual) >>
                  \o (IF pages = <<>> THEN <<>> ELSE << Did("renderPage", NoVisual) >>)
    /\ IF pages = <<>>
       THEN UNCHANGED <<currentPage, rendererVars, visualInfo>>
       ELSE switchPage(pages[1].name)
    /\ UNCHANGED <<input, maps, logs, normalized, pageLocals, visualLocals, bmIdx,
                   pathVars, infoVars, callVars, uploaded>>

\* a click on a page-item of the navigation
SwitchPage ==
    /\ pc = "displayed"
    /\ \E name \in PageNames :
          /\ switchPage(name)
          /\ handled' = << Did("page-item.click", NoVisual), Did("renderPage", NoVisual) >>
    /\ UNCHANGED <<pc, input, maps, logs, normalized, pageLocals, visualLocals, bmIdx,
                   pathVars, infoVars, callVars, uploaded>>

\* handleClick for a click at point: selectVisual and the listener
handleClick(point) ==
    /\ SelectVisual("layout-canvas.click", Clicked(point[1], point[2]))
    /\ UNCHANGED <<pc, input, maps, logs, normalized, pageLocals, visualLocals, bmIdx,
                   pathVars, infoVars, callVars, uploaded>>

\* a click on the canvas
HandleClick == \E point \in ClickPoints : handleClick(point)

\* a click on a visual-item of the page overview: highlightVisual(visualName)
HighlightVisual ==
    /\ visualInfo.kind = "Page Overview"
    /\ \E v \in { PageNamed(visualInfo.page).visuals[i].name :
                     i \in DOMAIN PageNamed(visualInfo.page).visuals } :
          LET found == { i \in DOMAIN visualElements : visualElements[i].name = v }
          IN  IF found = {}
              THEN /\ handled' = << Did("visual-item.click", NoVisual) >>
                   /\ UNCHANGED <<currentPage, rendererVars, visualInfo>>
              ELSE SelectVisual("visual-item.click", visualElements[SetMin(found)].data)
    /\ UNCHANGED <<pc, input, maps, logs, normalized, pageLocals, visualLocals, bmIdx,
                   pathVars, infoVars, callVars, uploaded>>

NextRenderer == DisplayReport \/ SwitchPage \/ HandleClick \/ HighlightVisual

SpecRenderer == InitRenderer /\ [][NextRenderer]_vars

(***************************************************************************)
(* What the claims speak of.                                               *)
(***************************************************************************)
HasRoot == findFile(Join(<<"definition", "report.json">>)) # 0

\* the run is suspended at an await of parsePages / parsePageVisuals
AtAwait == pc \in {"gotPage", "gotVisual", "gotMobile", "gotVisuals"}

PageFiles == {i \in 1..Len(files) : IsPageFile(files[i].path)}

\* the files that are a visual.json below a pages directory
VisualFiles ==
    {j \in 1..Len(files) :
        /\ Includes(files[j].path, <<Slash, "pages", Slash>>)
        /\ EndsWith(files[j].path, <<Slash, "visual.json">>)}

VisualFilesOf(n) == {j \in 1..Len(files) : IsVisualFileOf(files[j].path, n)}

IsObject(i) == files[i].doc.kind = "obj"

\* the page files of identifier n that deserialize to an object
ObjectPagesOf(n) ==
    {i \in PageFiles : extractPageName(files[i].path) = n /\ IsObject(i)}

\* the visual files of page n and visual identifier v that deserialize to an object
ObjectVisualsOf(n, v) ==
    {j \in VisualFilesOf(n) : extractVisualName(files[j].path) = v /\ IsObject(j)}

Last(S) == CHOOSE i \in S : \A j \in S : j <= i

NoRootCount ==
    Cardinality({k \in 1..Len(parseWarnings) : parseWarnings[k] = NoRootWarning})

\* the number of reads so far that P accepts
Reads(P(_)) == Cardinality({k \in 1..Len(readLog) : P(readLog[k])})

\* the number of entries of list that name path
Naming(list, path) == Cardinality({k \in 1..Len(list) : list[k].path = path})

DocAt(path) == files[FileAt(path)].doc

Paths == {files[i].path : i \in 1..Len(files)}

C2_NoAbort == pc # "aborted"

(***************************************************************************)
(* C3.                                                                     *)
(***************************************************************************)
\* C3: the parse errors are exactly the reads of documents that failed to
\* deserialize: one entry naming the path for each such read, none for a
\* document that deserializes.
C3_ErrorsAreParseFailures ==
    impl = "cli" =>
        /\ \A k \in 1..Len(parseErrors) : DocAt(parseErrors[k].path).kind = "bad"
        /\ LET Failed(read) == DocAt(read.path).kind = "bad"
           IN  Len(parseErrors) = Reads(Failed)

(***************************************************************************)
(* C4.                                                                     *)
(***************************************************************************)
\* the document lacks a key that the loaded schema declares required
LacksRequired(doc, schemaName) ==
    /\ schemaName \in schemas
    /\ doc.kind = "obj"
    /\ \E k \in RequiredKeys(schemaName) : doc.f[k] = UNDEF

\* C4 as stated: a document gets a warning exactly when it deserializes and
\* lacks a declared-required top-level key.
C4_Original ==
    impl = "cli" =>
        \A p \in Paths :
            LET Fails(read) == read.path = p /\ LacksRequired(DocAt(p), read.schema)
            IN  Naming(parseWarnings, p) = Reads(Fails)

\* the data that the last read returned
Returned ==
    CASE pc = "gotPage" -> pageData
      [] pc = "gotVisual" -> visualData
      [] pc = "gotMobile" -> mobileData

\* C4 (amended): each read of a document that deserializes adds one warning
\* naming its path when the schema of the read is not loaded or the document
\* is an object that lacks a declared-required top-level key, and no warning
\* otherwise; an object is returned for normalization whether or not it was
\* warned about.
C4_Warnings ==
    impl = "cli" =>
        /\ \A p \in Paths :
              LET Warned(read) ==
                      /\ read.path = p
                      /\ DocAt(p).kind # "bad"
                      /\ \/ read.schema \notin schemas
                         \/ LacksRequired(DocAt(p), read.schema)
              IN  Naming(parseWarnings, p) = Reads(Warned)
        /\ pc \in {"gotPage", "gotVisual", "gotMobile"} =>
              LET d == DocAt(readLog[Len(readLog)].path)
              IN  d.kind = "obj" => Returned = Parsed(d)

\* C4 witness: a mobile.json without its required position was warned about
\* under the loaded schema and is part of the returned visual.
C4_Witness ==
    /\ impl = "cli" /\ pc = "done"
    /\ "visualContainerMobileState" \in schemas
    /\ \E key \in DOMAIN visuals :
          /\ Truthy(visuals[key].mobile)
          /\ visuals[key].mobile.f["position"] = UNDEF
          /\ \E k \in 1..Len(parseWarnings) :
                parseWarnings[k].what = "visualContainerMobileState"

(***************************************************************************)
(* C5.                                                                     *)
(***************************************************************************)
\* C5: merging version.json and reportExtensions.json only adds fields: a
\* field that the Report record has keeps its value.
C5_MergeOnlyAdds ==
    [][\A k \in Keys :
          (Truthy(reportData) /\ reportData.f[k] # UNDEF)
              => reportData'.f[k] = reportData.f[k]]_vars

(***************************************************************************)
(* C6.                                                                     *)
(***************************************************************************)
\* C6: every document is read before the first normalization step: no read
\* happens once a visual was processed or a page assembled.
C6_ReadsBeforeNormalization ==
    [][readLog' # readLog => ~normalized]_vars

(***************************************************************************)
(* C7.                                                                     *)
(***************************************************************************)
\* C7 as stated: at every await, each visual of the visuals collection
\* belongs to a page that is in the pages collection with all its visuals.
C7_Original ==
    AtAwait =>
        \A key \in DOMAIN visuals :
            /\ visuals[key].pageName \in DOMAIN pages
            /\ visuals[key].visualName \in DOMAIN pages[visuals[key].pageName].visuals

\* C7 (amended): a page is in the pages collection only complete, with every
\* visual of its identifier that deserializes to an object, each of them also
\* in the visuals collection; a visual of the visuals collection belongs to a
\* page of the pages collection or to the page that is being parsed.
C7_Publication ==
    /\ \A key \in DOMAIN visuals :
          \/ visuals[key].pageName \in DOMAIN pages
          \/ visuals[key].pageName = pageName
    /\ \A n \in DOMAIN pages :
          /\ \A v \in DOMAIN pages[n].visuals : VisualKey(n, v) \in DOMAIN visuals
          /\ \A j \in VisualFilesOf(n) :
                IsObject(j) => extractVisualName(files[j].path) \in DOMAIN pages[n].visuals

\* C7 witness: at an await, the visuals collection shows a visual of a page
\* that is not in the pages collection.
C7_Witness ==
    /\ AtAwait
    /\ \E key \in DOMAIN visuals : visuals[key].pageName \notin DOMAIN pages

(***************************************************************************)
(* C8.                                                                     *)
(***************************************************************************)
\* C8: a page is stored under the identifier of the path of its page.json,
\* and that identifier is its name, whatever name the document holds.
C8_PageNameFromPath ==
    /\ \A n \in DOMAIN pages :
          /\ pages[n].f["name"] = n
          /\ \E i \in PageFiles : extractPageName(files[i].path) = n
    /\ pc \in {"gotPage", "visuals", "gotVisual", "gotMobile", "gotVisuals"} =>
          pageName = extractPageName(files[fileIdx].path)

\* C8 witness: a stored page whose document holds another name.
C8_Witness ==
    \E n \in DOMAIN pages :
        \E i \in ObjectPagesOf(n) : files[i].doc.f["name"] \notin {UNDEF, n}

(***************************************************************************)
(* C9.                                                                     *)
(***************************************************************************)
\* the entries of the pages array of pages.json for the page
EntriesOfPage ==
    IF pagesData.kind = "list"
    THEN {i \in 1..Len(pagesData.pages) : pagesData.pages[i].name = pageName}
    ELSE {}

\* the display name that pages.json gives the page: that of its last entry
ListedName ==
    IF EntriesOfPage = {} THEN UNDEF
    ELSE pagesData.pages[Last(EntriesOfPage)].displayName

IdentifierOf(segs, dir, leaf) ==
    LET n == Len(segs)
    IN  IF /\ n >= 4
           /\ segs[n] = <<leaf>>
           /\ segs[n - 2] = <<dir>>
           /\ segs[n - 1] # <<>>
        THEN segs[n - 1]
        ELSE Str("unknown")

\* the stem of the last segment "<stem>.bookmark.json", "unknown" when the
\* path has no such last segment below a directory
BookmarkOf(segs) ==
    LET n == Len(segs)
        last == segs[n]
    IN  IF /\ n >= 2
           /\ Len(last) >= 2
           /\ last[Len(last)] = ".bookmark.json"
        THEN SubSeq(last, 1, Len(last) - 1)
        ELSE Str("unknown")

\* C10: for every path, extractPageName, extractVisualName and
\* extractBookmarkName return the identifier that the pattern of the role
\* captures when the path matches it, and "unknown" when it does not.
C10_ExtractNames ==
    /\ pc = "extractPageName" => match = IdentifierOf(segments, "pages", "page.json")
    /\ pc = "extractVisualName" => match = IdentifierOf(segments, "visuals", "visual.json")
    /\ pc = "extractBookmarkName" => match = BookmarkOf(segments)

\* C10 witness: a page.json nested two directories below pages/ passes the
\* filter of the page files and has the identifier "unknown".
C10_Witness ==
    /\ pc = "extractPageName"
    /\ IsPageFile(givenPath)
    /\ Len(segments) = 5
    /\ segments[2] = <<"pages">>
    /\ segments[3] # <<>> /\ segments[4] # <<>>
    /\ match = Str("unknown")

(***************************************************************************)
(* C11.                                                                    *)
(***************************************************************************)
\* the entry stored under key k of map m is kept by the step
Kept(m, mNext, k) == k \in DOMAIN mNext /\ mNext[k] = m[k]

\* C11: documents of one role with the same identifier are not silently
\* merged: a stored page, visual or bookmark is replaced by a later one only
\* in a step that records the collision among the errors or the warnings.
C11_NoSilentReplacement ==
    [][\/ /\ \A n \in DOMAIN pages : Kept(pages, pages', n)
          /\ \A k \in DOMAIN visuals : Kept(visuals, visuals', k)
          /\ \A b \in DOMAIN bookmarks : Kept(bookmarks, bookmarks', b)
       \/ parseWarnings' # parseWarnings
       \/ parseErrors' # parseErrors]_vars

(***************************************************************************)
(* C12.                                                                    *)
(***************************************************************************)
\* C12: the x, y, z, width and height of the normalized layout of a visual
\* are numbers, never null or undefined, and width and height are not
\* negative.
C12_LayoutNumbers ==
    pc \in {"extractLayout", "extractLayoutWeb", "validatePosition"} =>
        LET Coordinate(k) ==
                Field(result, IF pc = "extractLayoutWeb" THEN LayoutKey(k) ELSE k)
        IN  /\ \A k \in Coordinates : Coordinate(k).t = "number"
            /\ \A k \in {"width", "height"} : Coordinate(k).v >= 0

(***************************************************************************)
(* C13.                                                                    *)
(***************************************************************************)
TypeResolved ==
    pc \in {"extractVisualProperties", "extractVisualPropertiesWeb",
            "extractVisualPropertiesEnhanced", "getVisualType"}

\* C13: a visual document that carries both visual.visualType and
\* visual.singleVisual.visualType resolves to the value of visual.visualType
\* (or to what the tables of the resolver make of that value).
C13_VisualTypeFirst ==
    (TypeResolved /\ NonEmpty(arg.visualType) /\ NonEmpty(arg.singleVisualType)) =>
        result = CASE pc = "getVisualType" ->
                        getVisualType([arg EXCEPT !.singleVisualType = UNDEF])
                   [] pc = "extractVisualPropertiesEnhanced" ->
                        extractVisualPropertiesEnhanced(
                            [arg EXCEPT !.singleVisualType = UNDEF])
                   [] OTHER -> arg.visualType

(***************************************************************************)
(* C14.                                                                    *)
(***************************************************************************)
\* the raw type that a resolver which tries visual.visualType first reads
RawType ==
    IF NonEmpty(arg.visualType) THEN arg.visualType
    ELSE IF NonEmpty(arg.singleVisualType) THEN arg.singleVisualType
    ELSE Str("unknown")

\* the raw type contains the custom visual infix CV_
HasInfix(raw) == \E i \in 1..Len(raw) : raw[i] = "CV_"

KnownTypes ==
    CASE pc = "extractVisualPropertiesEnhanced" -> visualTypes
      [] pc = "getVisualType" -> MappedTypes
      [] OTHER -> {}

\* the document holds visual.visualType only, and it is not a known type
OnlyUnknownType ==
    /\ TypeResolved
    /\ NonEmpty(arg.visualType)
    /\ arg.singleVisualType = UNDEF
    /\ arg.visualType \notin KnownTypes

\* C15: a raw type that is in no table of known types, and is no custom
\* visual type, passes through unchanged as the resolved type and is never
\* replaced by 'unknown'.
C15_UnknownTypePassesThrough ==
    (/\ OnlyUnknownType
     /\ ~HasInfix(arg.visualType)
     /\ StringLength(arg.visualType) < 30)
        => result = arg.visualType

(***************************************************************************)
(* C16.                                                                    *)
(***************************************************************************)
\* C16: the title override of the visual container is tried before the
\* legacy objects title: a visual document that carries both resolves to the
\* container title ("Revenue Trend" and "Chart1" resolve to "Revenue Trend").
C16_ContainerTitleFirst ==
    (/\ pc \in {"propertiesTitle", "propertiesTitleEnhanced", "drawVisualTitle",
                "getVisualDisplayName"}
     /\ arg.containerTitle \in {Str("Revenue Trend"), <<"'", "Revenue Trend", "'">>}
     /\ arg.legacyTitle = Str("Chart1"))
        => result = Str("Revenue Trend")

(***************************************************************************)
(* C17.                                                                    *)
(***************************************************************************)
AggregationResolved ==
    pc \in {"getAggregationFunction", "parseSelectExpression", "aggregationType"}

\* the codes that the table of the resolver that ran defines
DefinedCodes == IF pc = "parseSelectExpression" THEN 0..8 ELSE 0..5

\* C17: resolving an aggregation function code (a number, null or
\* undefined) always returns a name: code 0 resolves to "Sum", and a code
\* that is not in the lookup table resolves to "Unknown".
C17_AggregationCodes ==
    AggregationResolved =>
        /\ result # UNDEF
        /\ arg = Num(0) => result = Str("Sum")
        /\ (arg.t # "number" \/ arg.v \notin DefinedCodes) => result = Str("Unknown")

\* C17 witness: code 99 resolved to "Unknown".
C17_Witness ==
    /\ pc = "getAggregationFunction"
    /\ arg = Num(99)
    /\ result = Str("Unknown")

(***************************************************************************)
(* C18.                                                                    *)
(***************************************************************************)
\* one name for the spellings of the distinct count
Canonical(name) ==
    IF name \in {Str("DistinctCount"), Str("Count (Distinct)")}
    THEN Str("CountDistinct")
    ELSE name

\* C18: the table used for filter field names (getAggregationFunction) and
\* the table used for Select entries (aggregationFunctions) give the same
\* function for every code that both define, the codes 0..5.
C18_TablesAgree ==
    (pc = "getAggregationFunction" /\ arg.t = "number" /\ arg.v \in 0..5) =>
        Canonical(result) = Canonical(parseSelectExpression(arg))

\* an In node with the values A and B: as its expressions or as its Values
InOfAB(node) ==
    /\ node.key = "In"
    /\ \/ node.exprs \in {<<StringExpr(A), StringExpr(B)>>, <<LiteralExpr(A), LiteralExpr(B)>>}
       \/ node.values \in {<<StringExpr(A), StringExpr(B)>>, <<LiteralExpr(A), LiteralExpr(B)>>}

\* a Comparison node of kind GreaterThan, by name or by code, with the literal 10
GreaterThanTen(node) ==
    /\ node.key = "Comparison"
    /\ node.kind \in GreaterThanKinds
    /\ node.exprs = <<LiteralExpr(Ten)>>

\* "(IN (A, B) AND GreaterThan 10)"
Rendering ==
    <<"(", "IN (", "A", ", ", "B", ")", " AND ", "GreaterThan", " ", "10", ")">>

\* C19: the filter renderer renders an And node whose left child is an In
\* node with the values A and B and whose right child is a Comparison node
\* of kind GreaterThan with the literal 10 as "(IN (A, B) AND GreaterThan 10)".
C19_Rendering ==
    (/\ pc = "formatFilterObject"
     /\ arg.key = "And"
     /\ InOfAB(arg.kids[1])
     /\ GreaterThanTen(arg.kids[2]))
        => result = Rendering

\* the filters of the list whose type tag is in the closed set, in input order
Recognised(filters) == SelectSeq(filters, Accepted)

\* C20: of the filters of a filterConfig.filters list exactly those whose
\* type tag is in the closed set appear in the output, one output filter per
\* such input filter and in input order; a filter with another type tag is
\* dropped.
C20_ClosedFilterTypes ==
    pc \in {"extractFiltersEnhanced", "extractFilters", "parseFilterConfig"}
        => /\ Len(result) = Len(Recognised(arg))
           /\ \A i \in DOMAIN result :
                  /\ result[i].type = Recognised(arg)[i].type
                  /\ result[i].name = Recognised(arg)[i].name

(***************************************************************************)
(* C21.                                                                    *)
(***************************************************************************)
\* C21: the filter renderer never raises an error: for every filter node,
\* a null child and an And or Or node with Left and Right included, it
\* returns a string, and for a node of unrecognized shape the JSON dump.
C21_RendererNeverThrows ==
    (pc = "formatFilterObject" /\ arg # NullNode)
        => /\ result # Thrown
           /\ arg.key = "none" => result = Stringify

(***************************************************************************)
(* C22.                                                                    *)
(***************************************************************************)
\* the operator names of the comparison-kind codes 0..4
OperatorNames ==
    <<"Equal", "GreaterThan", "GreaterThanOrEqual", "LessThan", "LessThanOrEqual">>

\* a node the interpreter built: tagged with its variant, or null
Tagged(node) == node.key \in {"none", "null"} /\ node.type # ""

\* the children of the result are the parsed children of the condition
ParsedChildren ==
    /\ Len(result.kids) = Len(arg.kids)
    /\ ~arg.list => \A i \in DOMAIN arg.kids :
                        result.kids[i] = parseConditionExpression(arg.kids[i])

\* C22: parsing a condition yields a node tagged with its variant: an And or
\* Or node yields a node with exactly two parsed children, a Not node a node
\* tagged Not with exactly one parsed child, and a Comparison node carries
\* the operator name of its comparison-kind code 0..4.
C22_TaggedNodes ==
    (pc = "parseConditionExpression" /\ arg.key \in {"And", "Or", "Not", "Comparison"})
        => /\ Tagged(result)
           /\ result.type = arg.key
           /\ arg.key \in {"And", "Or"} => Len(result.kids) = 2 /\ ParsedChildren
           /\ arg.key = "Not" => Len(result.kids) = 1 /\ ParsedChildren
           /\ arg.key = "Comparison"
                  => \A c \in 0..4 : arg.kind = Str(ToString(c))
                                          => result.kind = Str(OperatorNames[c + 1])

(***************************************************************************)
(* C23.                                                                    *)
(***************************************************************************)
\* the value of the first wrapper present, in the order literal.value,
\* solid.color, expr.Literal.Value; null when there is none
FirstShape(property) ==
    IF ~property.present THEN Returns("null", <<>>)
    ELSE IF property.literal # UNDEF THEN Returns("value", property.literal)
    ELSE IF property.solid # UNDEF THEN Returns("value", property.solid)
    ELSE IF property.expr # UNDEF THEN Returns("value", property.expr)
    ELSE Returns("null", <<>>)

\* C23: the literal resolver returns the value of the first shape present in
\* the order literal.value, solid.color, expr.Literal.Value, and null when
\* none is present or the input is missing; never the wrapper object itself.
C23_LiteralResolver ==
    pc \in {"extractLiteralValue", "formatPropertyValue"}
        => /\ result = FirstShape(arg)
           /\ result.kind # "property"

(***************************************************************************)
(* C24.                                                                    *)
(***************************************************************************)
FieldsExtracted == pc \in {"extractFields", "extractFieldsWeb", "extractFieldsEnhanced"}

\* the number of entries of a list of names that are the name
Count(names, name) == Cardinality({i \in DOMAIN names : names[i] = name})

\* how often a field name appears in the extracted fields
Appearances(name) ==
    (IF name \in result.dataRoles THEN 1 ELSE 0) + Count(result.measures, name)
        + Count(result.dimensions, name) + Count(result.hierarchies, name)

\* the Names of the Select list
SelectNames == [i \in DOMAIN arg.Select |-> arg.Select[i].name]

\* the names of a group are Names of the Select list, in Select order
RECURSIVE InOrder(_, _)
InOrder(names, all) ==
    IF names = <<>> THEN TRUE
    ELSE IF all = <<>> THEN FALSE
    ELSE IF Head(names) = Head(all) THEN InOrder(Tail(names), Tail(all))
    ELSE InOrder(names, Tail(all))

\* C24: each Select entry contributes at most one binding, to one output
\* group and in Select order, and a binding that the document encodes both
\* in dataRoles and in the Select list appears only once in the extracted
\* fields.
C24_NoDoubleCount ==
    FieldsExtracted
        => /\ Len(result.measures) + Len(result.dimensions) + Len(result.hierarchies)
                  <= Len(arg.Select)
           /\ InOrder(result.measures, SelectNames)
           /\ InOrder(result.dimensions, SelectNames)
           /\ InOrder(result.hierarchies, SelectNames)
           /\ \A name \in arg.dataRoles :
                  Count(SelectNames, name) = 1 => Appearances(name) = 1

(***************************************************************************)
(* C25.                                                                    *)
(***************************************************************************)
\* the bookmark files of the document set
BookmarkFiles == {i \in 1..Len(files) : IsBookmarkFile(files[i].path)}

\* the documents of the report structure
ReportFiles ==
    {i \in 1..Len(files) :
        files[i].path \in {Def(<<"report.json">>), Def(<<"version.json">>),
                           Def(<<"reportExtensions.json">>)}}

\* C25: the result of a parse depends only on the document set given to it:
\* when parseFiles is called a second time on the same parser, the report,
\* pages, visuals and bookmarks of the second result hold nothing that came
\* only from the first document set.
C25_OnlyThisDocumentSet ==
    (pc = "done" /\ uploaded # <<>>)
        => /\ \A n \in DOMAIN pages :
                  \E i \in PageFiles : extractPageName(files[i].path) = n
           /\ \A k \in DOMAIN visuals :
                  \E i \in PageFiles, j \in VisualFiles :
                      k = VisualKey(extractPageName(files[i].path),
                                    extractVisualName(files[j].path))
           /\ \A b \in DOMAIN bookmarks :
                  \E i \in BookmarkFiles : extractBookmarkName(files[i].path) = b
           /\ ReportFiles = {} => reportData = Null

(***************************************************************************)
(* C26.                                                                    *)
(***************************************************************************)
\* the number of visuals of the stored pages, summed over the pages
RECURSIVE PageVisualsCount(_)
PageVisualsCount(names) ==
    IF names = {} THEN 0
    ELSE LET n == CHOOSE x \in names : TRUE
         IN  Cardinality(DOMAIN pages[n].visuals) + PageVisualsCount(names \ {n})

\* C26: after a completed parse totalVisuals, the size of the global map
\* keyed "pageName:visualName", is the sum over the stored pages of the
\* number of visuals of the page, and every global entry is a visual of the
\* page named in it.
C26_VisualsAgree ==
    pc = "done"
        => /\ Cardinality(DOMAIN visuals) = PageVisualsCount(DOMAIN pages)
           /\ \A k \in DOMAIN visuals :
                  /\ visuals[k].pageName \in DOMAIN pages
                  /\ visuals[k].visualName \in DOMAIN pages[visuals[k].pageName].visuals

(***************************************************************************)
(* C27.                                                                    *)
(***************************************************************************)
\* the document set holds definition/bookmarks/bookmarks.json
HasBookmarksList == Def(<<"bookmarks", "bookmarks.json">>) \in Paths

\* the files below a bookmarks directory whose name ends in .bookmark.json
BookmarkDocuments ==
    {i \in 1..Len(files) :
        /\ \E k \in 2..(Len(files[i].path) - 1) :
               /\ files[i].path[k] = "bookmarks"
               /\ files[i].path[k - 1] = Slash
               /\ files[i].path[k + 1] = Slash
        /\ files[i].path[Len(files[i].path)] = ".bookmark.json"}

\* the file name without .bookmark.json
Stem(path) ==
    LET slashes == {k \in 1..Len(path) : path[k] = Slash}
        from == IF slashes = {} THEN 0 ELSE CHOOSE k \in slashes : \A l \in slashes : l <= k
    IN  SubSeq(path, from + 1, Len(path) - 1)

\* bookmark documents are read only after a bookmarks.json document was read
ReadAfterList ==
    \A k \in 1..Len(readLog) :
        readLog[k].schema = "bookmark"
            => \E j \in 1..(k - 1) : readLog[j].schema = "bookmarksMetadata"

\* C27 as stated: bookmark documents are read only after a bookmarks.json
\* document was read; without definition/bookmarks/bookmarks.json the
\* resulting bookmarks are empty whatever *.bookmark.json documents exist,
\* and with one, even an unparseable one, every *.bookmark.json document
\* that deserializes is stored under the name taken from its path.
C27_Original ==
    /\ ReadAfterList
    /\ (pc = "done" /\ ~HasBookmarksList) => bookmarks = EmptyMap
    /\ (pc = "done" /\ HasBookmarksList)
           => \A i \in BookmarkDocuments :
                  files[i].doc.kind # "bad" => Stem(files[i].path) \in DOMAIN bookmarks

\* C27 (amended): as C27, but of the documents that deserialize
\* EnhancedPBIRParser stores those whose value is truthy (a document that
\* holds null is not stored), while PBIRParser stores an entry for every
\* *.bookmark.json document.
C27_BookmarksAfterList ==
    /\ ReadAfterList
    /\ (pc = "done" /\ ~HasBookmarksList) => bookmarks = EmptyMap
    /\ (pc = "done" /\ HasBookmarksList)
           => \A i \in BookmarkDocuments :
                  IF impl = "web" \/ Truthy(Parsed(files[i].doc))
                  THEN /\ Stem(files[i].path) \in DOMAIN bookmarks
                       /\ Truthy(Parsed(files[i].doc))
                              => bookmarks[Stem(files[i].path)] = Parsed(files[i].doc)
                  ELSE Stem(files[i].path) \notin DOMAIN bookmarks

\* C27 witness: a parse is complete whose bookmarks.json did not deserialize
\* and whose bookmark b1 is stored.
C27_Witness ==
    /\ pc = "done"
    /\ HasBookmarksList
    /\ DocAt(Def(<<"bookmarks", "bookmarks.json">>)).kind = "bad"
    /\ <<"b1">> \in DOMAIN bookmarks

\* the visuals of the page the renderer holds, as selectVisual would store them
VisualsRendered ==
    IF rendered = "" THEN {}
    ELSE { [page |-> rendered, name |-> PageNamed(rendered).visuals[i].name] :
              i \in DOMAIN PageNamed(rendered).visuals }

\* C28: in the renderer, after any sequence of renderPage, canvas clicks,
\* highlightVisual and page switches, selectedVisual is null or one of the
\* visuals of the page currently rendered: a page switch never leaves a
\* visual of the page before selected.
C28_SelectionOnRenderedPage ==
    selectedVisual = NoVisual \/ selectedVisual \in VisualsRendered

\* the entries of handled that are what
Entries(what) == { i \in DOMAIN handled : handled[i].what = what }

\* the elements drawn whose bounds contain the point
Hits(point) ==
    { i \in DOMAIN visualElements :
         /\ point[1] >= visualElements[i].bounds.x
         /\ point[1] <= visualElements[i].bounds.x + visualElements[i].bounds.width
         /\ point[2] >= visualElements[i].bounds.y
         /\ point[2] <= visualElements[i].bounds.y + visualElements[i].bounds.height }

\* what a click at point has done once its handler has returned
ClickOutcome(point) ==
    LET renders == { i \in DOMAIN handled' : handled'[i].what = "renderPage" }
        events == { i \in DOMAIN handled' : handled'[i].what = "visualSelected" }
    IN  /\ Cardinality(events) = 1
        /\ Cardinality(renders) = (IF rendered = "" THEN 0 ELSE 1)
        /\ \A r \in renders : \A e \in events : r < e
        /\ \A e \in events :
              /\ handled'[e].detail = NoVisual <=> Hits(point) = {}
              /\ Hits(point) # {} =>
                    \E i \in Hits(point) :
                       /\ handled'[e].detail = visualElements[i].data
                       /\ handled'[e].detail.name = visualElements[i].name
                       /\ \A j \in Hits(point) : i <= j

\* C29: every click on the canvas results in exactly one re-render of the
\* current page (when a page is loaded) followed by exactly one
\* visualSelected event, and handling the event triggers no further
\* selection; the detail of the event names the first visual in drawing
\* order whose drawn bounds contain the click point, and it is null exactly
\* when no visual's bounds contain the point.
C29_ClickSelectsFirstHit ==
    [][\A point \in ClickPoints : handleClick(point) => ClickOutcome(point)]_vars

\* a click where two visuals overlap has selected the one drawn first, after
\* one re-render and with one event
C29_Witness ==
    /\ Len(handled) = 4
    /\ handled[1].what = "layout-canvas.click"
    /\ handled[2].what = "renderPage"
    /\ handled[3] = Did("visualSelected", [page |-> "p1", name |-> "v1"])
    /\ selectedVisual = [page |-> "p1", name |-> "v1"]
    /\ \E point \in ClickPoints : Hits(point) = {1, 2}
    /\ visualInfo.kind = "selected-visual"

\* the canvas shows the empty state and nothing else
EmptyStateOnly == canvas = << Drawn("emptyState", "", FALSE) >>

\* the canvas shows a page background, a visual or the grid
PageDrawn ==
    \E i \in DOMAIN canvas : canvas[i].op \in {"pageBackground", "visual", "grid"}

\* C30: renderPage shows the empty state, and draws no page background,
\* visual or grid, exactly when the page has no visuals; this includes a
\* parsed page whose visuals collection is an empty object, for which the
\* side panel shows 'No visuals on this page'.
C30_EmptyStateIffNoVisuals ==
    rendered # "" =>
        /\ (EmptyStateOnly /\ ~PageDrawn) <=> PageNamed(rendered).visuals = <<>>
        /\ (PageNamed(rendered).visuals = <<>> /\ currentPage = rendered
               /\ visualInfo.kind # "selected-visual")
             => visualInfo.kind = "No visuals on this page"

====
